---------------------------- MODULE Spec2Model ----------------------------
(***************************************************************************)
(* A model of three parts of the repository:                               *)
(*   - TypeMap / TimingInfo       crates/net_decode/src/listener.rs        *)
(*   - the Listener chain         crates/net_decode/src/listener.rs        *)
(*   - ConnectionStream           crates/devtools_server/src/lib.rs        *)
(* Each part has its own specification; the variables of the other parts   *)
(* stay at their initial values there.                                     *)
(***************************************************************************)
EXTENDS Integers, Sequences, FiniteSets, TLC

\* Option<T>: None is the empty sequence, Some(x) the one-element sequence.
None == << >>

Some(x) == <<x>>

(***************************************************************************)
(* Bounds of the model.                                                    *)
(***************************************************************************)
MaxOps == 3        \* TypeMap operations in one behaviour
MaxNanos == 2      \* timestamps are drawn from 1..MaxNanos
NumTypes == 3      \* logical types (TypeId values) T1..Tn
MaxChain == 3      \* listeners in a chain, the terminal listener included
MaxMsgs == 2       \* messages the capture source feeds to the chain head
MaxSide == 1       \* side-data objects (injected or published) in one behaviour
MaxConns == 2      \* inbound TCP connections in one behaviour
MaxAcceptErrs == 1 \* errors the listening socket reports in one behaviour
MaxIn == 2         \* items a peer sends on one websocket
MaxOut == 3        \* send calls in one behaviour
MaxMtu == 7        \* the largest MTU passed to set_mtu
MaxMtuCalls == 2   \* set_mtu calls in one behaviour
MaxData == 3       \* the largest max_early_data a server grants
MaxSz == 3         \* the longest buffer given to one early-data write
MaxWrites == 2     \* early-data writes in one behaviour

VARIABLES
    timing,        \* TimingInfo {received_on_wire, other_times: TypeMap<Nanos>}
    tmHist,        \* ghost: the insert<T>(v) calls made so far, in order
    tmGot          \* ghost: the last get<T>() call and what it returned

tmVars == <<timing, tmHist, tmGot>>

VARIABLES
    chainLen,      \* listeners 1..chainLen-1 are stages, chainLen the terminal
    termKind,      \* which reference listener terminates the chain
    stack,         \* the active on_data / on_side_data calls, outermost first
    msgs,          \* the messages fed to the head so far; a message's id is its index
    sides,         \* the side-data objects created so far; sid is the index;
                   \* by: the stage that published it (0: injected from outside),
                   \* msg: the message it was processing
    inbox,         \* side data injected from outside, not yet handed to the head
    log,           \* what the terminal listener wrote with tracing::info!
    held,          \* held[l]: messages listener l keeps in its fields
    events         \* ghost: every call a listener received, in order

chainVars == <<chainLen, termKind, stack, msgs, sides, inbox, log, held, events>>

VARIABLES
    backlog,       \* TCP connections the listening socket holds, not yet accepted
    acceptErr,     \* the listening socket has an error for poll_accept to report
    nAcceptErr,    \* ghost: how many such errors there were
    next,          \* ConnectionStream.next: None or Some(c), c's upgrade future
    hs,            \* hs[c]: what c's peer has done, so what its upgrade future
                   \* returns when polled: "none" (not connected), "waiting"
                   \* (Pending), "ok" (Ready(Ok)), "err" (Ready(Err))
    yielded,       \* the items poll_next returned in Ready(Some(..)), in order
    accepted,      \* ghost: the connections poll_accept returned, in order
    lastPoll,      \* ghost: the last poll_next call: the slot it found, the
                   \* sources it polled, what it returned
    prevPoll       \* ghost: the poll_next call before that

connVars == <<backlog, acceptErr, nAcceptErr, next, hs, yielded, accepted,
              lastPoll, prevPoll>>

VARIABLES
    wsIn,          \* wsIn[c]: what c's WebSocketStream has received and not yet
                   \* handed out: messages, or a transport error
    wsEnded,       \* wsEnded[c]: the peer's stream has ended
    wsOut,         \* wsOut[c]: the frames written to c's websocket, in order
    wsBroken,      \* wsBroken[c]: writing to c's websocket fails
    scState,       \* scState[c]: "open", or "closed" once c's handler dropped it
    scItems,       \* ghost: scItems[c]: what c's stream yielded, with its cause
    scSends        \* ghost: scSends[c]: the send calls on c and their results

srvVars == <<wsIn, wsEnded, wsOut, wsBroken, scState, scItems, scSends>>

VARIABLES
    undecodable,   \* undecodable[l]: the flows stage l has given up decoding
    degraded       \* ghost: the messages forwarded as a marked partial result

fltVars == <<undecodable, degraded>>

VARIABLES
    mtu,           \* ClientConfig.mtu: Option<usize>
    mtuBuild,      \* how the crate was built: release, debug, or for tests
    mtuCalls,      \* ghost: the arguments of the set_mtu calls made, in order
    mtuPanicked    \* a debug_assert! of set_mtu has fired

mtuVars == <<mtu, mtuBuild, mtuCalls, mtuPanicked>>

VARIABLES
    edState,       \* EarlyData.state
    edLeft,        \* EarlyData.left
    edMax,         \* ghost: the max_data given to enable
    edWrites,      \* ghost: the early-data writes attempted, in order
    edSent,        \* bytes handed to send_early_plaintext so far
    edPanicked     \* an assertion of EarlyData has fired

edVars == <<edState, edLeft, edMax, edWrites, edSent, edPanicked>>

VARIABLES
    h2Pc,          \* where the application (the test body) is
    h2ReqEos,      \* the request ends with its HEADERS frame (no body)
    h2Script,      \* the reads the peer still has for the client, in order
    h2Wire,        \* the bytes the client has written, one entry per frame
    h2AckDue,      \* the peer's SETTINGS are received and not yet acknowledged
    h2Stream,      \* the state of stream 1
    h2Status,      \* the response status received, not yet taken by the caller
    h2Resp,        \* the response status poll_response returned
    h2Buf,         \* DATA payloads received, not yet taken by the body reader
    h2Chunks,      \* the chunks the body reader has got, in order
    h2Reads,       \* ghost: the frames received, each with the number of its read
    h2Conn         \* the connection future: open, done or error

h2Vars == <<h2Pc, h2ReqEos, h2Script, h2Wire, h2AckDue, h2Stream, h2Status, h2Resp, h2Buf, h2Chunks, h2Reads, h2Conn>>

vars == <<timing, tmHist, tmGot,
          chainLen, termKind, stack, msgs, sides, inbox, log, held, events,
          backlog, acceptErr, nAcceptErr, next, hs, yielded, accepted,
          lastPoll, prevPoll,
          wsIn, wsEnded, wsOut, wsBroken, scState, scItems, scSends,
          undecodable, degraded,
          mtu, mtuBuild, mtuCalls, mtuPanicked,
          edState, edLeft, edMax, edWrites, edSent, edPanicked,
          h2Pc, h2ReqEos, h2Script, h2Wire, h2AckDue, h2Stream, h2Status, h2Resp, h2Buf, h2Chunks, h2Reads, h2Conn>>

\* The variables of the other parts, which a part's actions leave alone.
notTm == <<chainVars, connVars, srvVars, fltVars, mtuVars, edVars, h2Vars>>

notChain == <<tmVars, connVars, srvVars, fltVars, mtuVars, edVars, h2Vars>>

notConn == <<tmVars, chainVars, srvVars, fltVars, mtuVars, edVars, h2Vars>>

notSrv == <<tmVars, chainVars, connVars, fltVars, mtuVars, edVars, h2Vars>>

notFlt == <<tmVars, chainVars, connVars, srvVars, mtuVars, edVars, h2Vars>>

notFault == <<tmVars, connVars, srvVars, mtuVars, edVars, h2Vars>>

notMtu == <<tmVars, chainVars, connVars, srvVars, fltVars, edVars, h2Vars>>

notEd == <<tmVars, chainVars, connVars, srvVars, fltVars, mtuVars, h2Vars>>

notH2 == <<tmVars, chainVars, connVars, srvVars, fltVars, mtuVars, edVars>>

Conns == 1..MaxConns

\* The ServerConnections alive at once: two are enough to tell one from another.
SConns == {1, 2}

NoPoll == [had |-> None, polled |-> << >>, ret |-> "none"]

(***************************************************************************)
(* TypeMap<V>(BTreeMap<TypeId, V>): the map is the set of its entries      *)
(* [k |-> TypeId, v |-> V].                                                *)
(***************************************************************************)
TypeIds == 1..NumTypes

Nanos == 1..MaxNanos

\* BTreeMap::get: the value filed under key k, or None.
BTreeMapGet(m, k) ==
    IF \E e \in m : e.k = k
    THEN Some((CHOOSE e \in m : e.k = k).v)
    ELSE None

\* BTreeMap::insert: the entry under k is replaced by (k, val).
BTreeMapInsert(m, k, val) ==
    {e \in m : e.k # k} \cup {[k |-> k, v |-> val]}

\* TypeId::of::<T>() is the key of logical type T.
TypeIdOf(T) == T

\* A bug: entry(k).or_insert(val), which keeps the value already there.
TypeMapInsertKeepsOld(m, T, val) ==
    IF \E e \in m : e.k = TypeIdOf(T) THEN m
    ELSE m \cup {[k |-> TypeIdOf(T), v |-> val]}

\* A bug: the map is rebuilt around the new entry, losing the other types.
TypeMapInsertClears(m, T, val) == {[k |-> TypeIdOf(T), v |-> val]}

TypeMapGet(m, T) == BTreeMapGet(m, TypeIdOf(T))

TypeMapInsert(m, T, val) == BTreeMapInsert(m, TypeIdOf(T), val)

\* TypeMap::default() and TimingInfo as the capture source builds it.
TypeMapDefault == {}

InitTypeMap ==
    /\ timing \in [received_on_wire : Nanos, other_times : {TypeMapDefault}]
    /\ tmHist = << >>
    /\ tmGot = [T |-> None, r |-> None, n |-> 0]
    /\ chainLen = 1
    /\ termKind = "NoOp"
    /\ stack = << >>
    /\ msgs = << >>
    /\ sides = << >>
    /\ inbox = << >>
    /\ log = << >>
    /\ held = [l \in 1..MaxChain |-> 0]
    /\ events = << >>
    /\ backlog = << >>
    /\ acceptErr = FALSE
    /\ nAcceptErr = 0
    /\ next = None
    /\ hs = [c \in Conns |-> "none"]
    /\ yielded = << >>
    /\ accepted = << >>
    /\ lastPoll = NoPoll
    /\ prevPoll = NoPoll
    /\ wsIn = [c \in SConns |-> << >>]
    /\ wsEnded = [c \in SConns |-> FALSE]
    /\ wsOut = [c \in SConns |-> << >>]
    /\ wsBroken = [c \in SConns |-> FALSE]
    /\ scState = [c \in SConns |-> "open"]
    /\ scItems = [c \in SConns |-> << >>]
    /\ scSends = [c \in SConns |-> << >>]
    /\ undecodable = [l \in 1..MaxChain |-> {}]
    /\ degraded = {}
    /\ mtu = None
    /\ mtuBuild = "release"
    /\ mtuCalls = << >>
    /\ mtuPanicked = FALSE
    /\ edState = "Disabled"
    /\ edLeft = 0
    /\ edMax = None
    /\ edWrites = << >>
    /\ edSent = 0
    /\ edPanicked = FALSE
    /\ h2Pc = "start"
    /\ h2ReqEos = TRUE
    /\ h2Script = << >>
    /\ h2Wire = << >>
    /\ h2AckDue = FALSE
    /\ h2Stream = "idle"
    /\ h2Status = None
    /\ h2Resp = None
    /\ h2Buf = << >>
    /\ h2Chunks = << >>
    /\ h2Reads = << >>
    /\ h2Conn = "open"

\* timing.other_times.insert::<T>(val)
TMInsert ==
    /\ Len(tmHist) < MaxOps
    /\ \E T \in TypeIds, val \in Nanos :
          /\ timing' = [timing EXCEPT
                          !.other_times = TypeMapInsert(@, T, val)]
          /\ tmHist' = Append(tmHist, [T |-> T, v |-> val])
    /\ UNCHANGED tmGot
    /\ UNCHANGED notTm

\* timing.other_times.get::<T>()
TMGet ==
    /\ \E T \in TypeIds :
          tmGot' = [T |-> Some(T), r |-> TypeMapGet(timing.other_times, T),
                    n |-> Len(tmHist)]
    /\ UNCHANGED <<timing, tmHist>>
    /\ UNCHANGED notTm

TMNext == TMInsert \/ TMGet

SpecTypeMap == InitTypeMap /\ [][TMNext]_vars

(***************************************************************************)
(* Ghost: the value of the most recent insert<T> in a history.             *)
(***************************************************************************)
RECURSIVE LastInserted(_, _)
LastInserted(h, T) ==
    IF h = << >> THEN None
    ELSE IF h[Len(h)].T = T THEN Some(h[Len(h)].v)
    ELSE LastInserted(SubSeq(h, 1, Len(h) - 1), T)

\* C1: TypeMap is last-write-wins per logical type: get<T>() returns the
\* value of the most recent insert<T>, nothing for a type never inserted,
\* and the map holds at most one value per type.
C1_LastWriteWins ==
    /\ \A T \in TypeIds :
          TypeMapGet(timing.other_times, T) = LastInserted(tmHist, T)
    /\ \A e1, e2 \in timing.other_times : e1.k = e2.k => e1 = e2
    /\ tmGot.n = Len(tmHist) /\ tmGot.T # None
          => tmGot.r = LastInserted(tmHist, tmGot.T[1])

\* C1 witness: insert<T>(a), insert<T>(b) with a # b, then get<T>(), and
\* another type never inserted.
C1_Witness ==
    /\ Len(tmHist) >= 2
    /\ tmHist[1].T = tmHist[2].T
    /\ tmHist[1].v # tmHist[2].v
    /\ tmGot.T = Some(tmHist[2].T)
    /\ tmGot.n = 2
    /\ tmGot.r = Some(tmHist[2].v)
    /\ \E U \in TypeIds : TypeMapGet(timing.other_times, U) = None

(***************************************************************************)
(* The Listener chain.  Listener l owns listener l+1; the terminal         *)
(* listener is one of the reference listeners NoOpListener,                *)
(* HexDumpListener, DebugListener.  The stages before it and the capture   *)
(* source that drives the head are not in listener.rs: they follow the     *)
(* contract of the Listener trait.                                         *)
(***************************************************************************)
Flows == {"A", "B"}

Payloads == {<<72, 105>>, <<0, 255>>}

\* The (flow identity, direction, raw bytes) tuples the capture source feeds.
Inputs ==
    {[target |-> "A", to_client |-> TRUE, data |-> <<72, 105>>],
     [target |-> "B", to_client |-> FALSE, data |-> <<0, 255>>]}

TermKinds == {"NoOp", "HexDump", "Debug"}

HexDigit(d) == SubSeq("0123456789abcdef", d + 1, d + 1)

\* hexdump::HexDumper over a byte vector: two hex digits per byte.
RECURSIVE HexDumper(_)
HexDumper(bytes) ==
    IF bytes = << >> THEN ""
    ELSE HexDigit(bytes[1] \div 16) \o HexDigit(bytes[1] % 16) \o " "
         \o HexDumper(Tail(bytes))

\* A listener's state as the reference listeners can touch it: the tracing
\* output and the messages kept in its fields (the structs have none).

\* A bug: NoOpListener keeps the message it was given.
NoOpOnDataRetains(st, target, to_client, data) ==
    [st EXCEPT !.held = @ + 1]

\* NoOpListener
NoOpOnData(st, target, to_client, data) == st

NoOpOnSideData(st, data) == st

\* A bug: the listener numbers its lines.
HexDumpOnDataCounts(st, target, to_client, data) ==
    [st EXCEPT !.log = Append(@, [text |-> "data", target |-> target,
                                  to_client |-> to_client,
                                  body |-> HexDumper(data)
                                           \o HexDigit(Len(st.log))])]

\* HexDumpListener
HexDumpOnData(st, target, to_client, data) ==
    [st EXCEPT !.log = Append(@, [text |-> "data", target |-> target,
                                  to_client |-> to_client,
                                  body |-> HexDumper(data)])]

HexDumpOnSideData(st, data) == st

\* DebugListener
DebugOnData(st, target, to_client, data) ==
    [st EXCEPT !.log = Append(@, [text |-> "data", target |-> target,
                                  to_client |-> to_client,
                                  body |-> data])]

DebugOnSideData(st, data) ==
    [st EXCEPT !.log = Append(@, [text |-> "side data", body |-> data])]

\* Dynamic dispatch through dyn Listener.
TerminalOnData(kind, st, target, to_client, data) ==
    CASE kind = "NoOp" -> NoOpOnData(st, target, to_client, data)
      [] kind = "HexDump" -> HexDumpOnData(st, target, to_client, data)
      [] kind = "Debug" -> DebugOnData(st, target, to_client, data)

TerminalOnSideData(kind, st, data) ==
    CASE kind = "NoOp" -> NoOpOnSideData(st, data)
      [] kind = "HexDump" -> HexDumpOnSideData(st, data)
      [] kind = "Debug" -> DebugOnSideData(st, data)

\* A call frame: listener l is inside on_data ("data") or on_side_data
\* ("side") for item id; pc says how far the call has got.
Frame(l, kind, id) == [l |-> l, kind |-> kind, id |-> id, pc |-> "enter"]

Top == stack[Len(stack)]

SetTopPc(stk, pc) == [stk EXCEPT ![Len(stk)].pc = pc]

Pop(stk) == SubSeq(stk, 1, Len(stk) - 1)

\* A bug: the head is entered while a call on the chain is active.
CanEnterAlways(stk) == TRUE

\* on_data and on_side_data take &mut self: a call can start on the head
\* only when no other call on the chain is active.
CanEnter(stk) == stk = << >>

\* A bug: the stage returns without handing the item on.
StageCallLost(stk, ev, l, kind, id) == [stk |-> stk, ev |-> ev]

\* A stage calls on_data / on_side_data of the listener it owns: the callee
\* runs inside the caller's call.
StageCall(stk, ev, l, kind, id) ==
    [stk |-> Append(stk, Frame(l + 1, kind, id)),
     ev |-> Append(ev, [l |-> l + 1, kind |-> kind, id |-> id])]

InitChain ==
    /\ timing = [received_on_wire |-> 1, other_times |-> TypeMapDefault]
    /\ tmHist = << >>
    /\ tmGot = [T |-> None, r |-> None, n |-> 0]
    /\ chainLen \in 1..MaxChain
    /\ termKind \in TermKinds
    /\ stack = << >>
    /\ msgs = << >>
    /\ sides = << >>
    /\ inbox = << >>
    /\ log = << >>
    /\ held = [l \in 1..MaxChain |-> 0]
    /\ events = << >>
    /\ backlog = << >>
    /\ acceptErr = FALSE
    /\ nAcceptErr = 0
    /\ next = None
    /\ hs = [c \in Conns |-> "none"]
    /\ yielded = << >>
    /\ accepted = << >>
    /\ lastPoll = NoPoll
    /\ prevPoll = NoPoll
    /\ wsIn = [c \in SConns |-> << >>]
    /\ wsEnded = [c \in SConns |-> FALSE]
    /\ wsOut = [c \in SConns |-> << >>]
    /\ wsBroken = [c \in SConns |-> FALSE]
    /\ scState = [c \in SConns |-> "open"]
    /\ scItems = [c \in SConns |-> << >>]
    /\ scSends = [c \in SConns |-> << >>]
    /\ undecodable = [l \in 1..MaxChain |-> {}]
    /\ degraded = {}
    /\ mtu = None
    /\ mtuBuild = "release"
    /\ mtuCalls = << >>
    /\ mtuPanicked = FALSE
    /\ edState = "Disabled"
    /\ edLeft = 0
    /\ edMax = None
    /\ edWrites = << >>
    /\ edSent = 0
    /\ edPanicked = FALSE
    /\ h2Pc = "start"
    /\ h2ReqEos = TRUE
    /\ h2Script = << >>
    /\ h2Wire = << >>
    /\ h2AckDue = FALSE
    /\ h2Stream = "idle"
    /\ h2Status = None
    /\ h2Resp = None
    /\ h2Buf = << >>
    /\ h2Chunks = << >>
    /\ h2Reads = << >>
    /\ h2Conn = "open"

\* The capture source feeds the next message to the head.
DriverOnData ==
    /\ CanEnter(stack)
    /\ Len(msgs) < MaxMsgs
    /\ \E m \in Inputs : msgs' = Append(msgs, m)
    /\ stack' = Append(stack, Frame(1, "data", Len(msgs) + 1))
    /\ events' = Append(events, [l |-> 1, kind |-> "data", id |-> Len(msgs) + 1])
    /\ UNCHANGED <<chainLen, termKind, sides, inbox, log, held>>
    /\ UNCHANGED notChain

\* A component outside the per-packet flow (a key-log watcher) produces a
\* side-data object at any time.
InjectSideData ==
    /\ Len(sides) < MaxSide
    /\ sides' = Append(sides, [by |-> 0, msg |-> 0])
    /\ inbox' = Append(inbox, Len(sides) + 1)
    /\ UNCHANGED <<chainLen, termKind, stack, msgs, log, held, events>>
    /\ UNCHANGED notChain

\* The driver hands injected side data to the head.
DriverOnSideData ==
    /\ CanEnter(stack)
    /\ inbox # << >>
    /\ inbox' = Tail(inbox)
    /\ stack' = Append(stack, Frame(1, "side", Head(inbox)))
    /\ events' = Append(events, [l |-> 1, kind |-> "side", id |-> Head(inbox)])
    /\ UNCHANGED <<chainLen, termKind, msgs, sides, log, held>>
    /\ UNCHANGED notChain

\* A stage, inside on_data for message M, publishes a fact it found: it
\* calls on_side_data of the listener it owns.
StagePublish ==
    /\ stack # << >>
    /\ Top.l < chainLen /\ Top.kind = "data" /\ Top.pc = "enter"
    /\ Len(sides) < MaxSide
    /\ sides' = Append(sides, [by |-> Top.l, msg |-> Top.id])
    /\ LET c == StageCall(SetTopPc(stack, "published"), events, Top.l,
                           "side", Len(sides) + 1)
       IN  /\ stack' = c.stk
           /\ events' = c.ev
    /\ UNCHANGED <<chainLen, termKind, msgs, inbox, log, held>>
    /\ UNCHANGED notChain

\* A stage forwards the message (on_data) or the side data (on_side_data)
\* to the listener it owns.
StageForward ==
    /\ stack # << >>
    /\ Top.l < chainLen /\ Top.pc \in {"enter", "published"}
    /\ LET c == StageCall(SetTopPc(stack, "called"), events, Top.l,
                           Top.kind, Top.id)
       IN  /\ stack' = c.stk
           /\ events' = c.ev
    /\ UNCHANGED <<chainLen, termKind, msgs, sides, inbox, log, held>>
    /\ UNCHANGED notChain

\* A stage returns: after forwarding, or, for a message it consumed or
\* could not decode, without forwarding.
StageReturn ==
    /\ stack # << >>
    /\ Top.l < chainLen
    /\ \/ Top.pc = "called"
       \/ Top.kind = "data" /\ Top.pc \in {"enter", "published"}
    /\ stack' = Pop(stack)
    /\ UNCHANGED <<chainLen, termKind, msgs, sides, inbox, log, held, events>>
    /\ UNCHANGED notChain

\* The terminal listener runs its on_data or on_side_data and returns.
TerminalCall ==
    /\ stack # << >>
    /\ Top.l = chainLen
    /\ LET st == [log |-> log, held |-> held[chainLen]]
           m == msgs[Top.id]
           r == IF Top.kind = "data"
                THEN TerminalOnData(termKind, st, m.target, m.to_client, m.data)
                ELSE TerminalOnSideData(termKind, st, Top.id)
       IN  /\ log' = r.log
           /\ held' = [held EXCEPT ![chainLen] = r.held]
    /\ stack' = Pop(stack)
    /\ UNCHANGED <<chainLen, termKind, msgs, sides, inbox, events>>
    /\ UNCHANGED notChain

ChainNext ==
    \/ DriverOnData
    \/ InjectSideData
    \/ DriverOnSideData
    \/ StagePublish
    \/ StageForward
    \/ StageReturn
    \/ TerminalCall

SpecChain == InitChain /\ [][ChainNext]_vars

(***************************************************************************)
(* Ghost operators over the record of calls.                               *)
(***************************************************************************)
\* Where listener l received item id in a call of the given kind.
EvIdx(l, kind, id) ==
    {j \in 1..Len(events) : events[j] = [l |-> l, kind |-> kind, id |-> id]}

Pos(l, kind, id) == CHOOSE j \in EvIdx(l, kind, id) : TRUE

\* The item is inside a call somewhere on the chain.
InFlight(kind, id) ==
    \E i \in 1..Len(stack) : stack[i].kind = kind /\ stack[i].id = id

\* Calls the driver made on the head.
HeadCalls == {j \in 1..Len(events) : events[j].l = 1}

Injected == {sd \in 1..Len(sides) : sides[sd].by = 0}

Published == {sd \in 1..Len(sides) : sides[sd].by > 0}

\* Messages received and not yet forwarded or discarded, anywhere in the chain.
RECURSIVE SumHeld(_)
SumHeld(l) == IF l = 0 THEN 0 ELSE held[l] + SumHeld(l - 1)

Pending ==
    Cardinality({i \in 1..Len(stack) : stack[i].kind = "data"})
    + SumHeld(chainLen)

\* C2: side data handed to the head reaches every listener of the chain
\* exactly once, in chain order, and all of it before the driver's next
\* call on the head.
C2_SideDataFanOut ==
    \A sd \in Injected :
        EvIdx(1, "side", sd) # {} =>
            /\ \A l \in 1..chainLen : Cardinality(EvIdx(l, "side", sd)) <= 1
            /\ \A l \in 2..chainLen :
                  EvIdx(l, "side", sd) # {} =>
                      /\ EvIdx(l - 1, "side", sd) # {}
                      /\ Pos(l - 1, "side", sd) < Pos(l, "side", sd)
            /\ ~InFlight("side", sd) =>
                  \A l \in 1..chainLen : Cardinality(EvIdx(l, "side", sd)) = 1
            /\ \A j \in HeadCalls :
                  j > Pos(1, "side", sd) =>
                      \A l \in 1..chainLen :
                          /\ EvIdx(l, "side", sd) # {}
                          /\ Pos(l, "side", sd) < j

\* C2 witness: on a chain of at least three listeners, injected side data
\* has reached the terminal listener and the driver has made a later call.
C2_Witness ==
    /\ chainLen >= 3
    /\ \E sd \in Injected :
          /\ EvIdx(chainLen, "side", sd) # {}
          /\ \E j \in HeadCalls : j > Pos(chainLen, "side", sd)

\* C3: two messages of one flow handed to the head in some order are
\* observed by the terminal listener, when it observes both, in that order.
C3_OrderPreserved ==
    \A m1, m2 \in 1..Len(msgs) :
        /\ m1 < m2
        /\ msgs[m1].target = msgs[m2].target
        /\ EvIdx(chainLen, "data", m1) # {}
        /\ EvIdx(chainLen, "data", m2) # {}
        => \A j1 \in EvIdx(chainLen, "data", m1),
              j2 \in EvIdx(chainLen, "data", m2) : j1 < j2

\* C3 witness: the terminal listener of a chain with stages has observed two
\* messages of one flow.
C3_Witness ==
    /\ chainLen >= 2
    /\ \E m1, m2 \in 1..Len(msgs) :
          /\ m1 < m2
          /\ msgs[m1].target = msgs[m2].target
          /\ EvIdx(chainLen, "data", m1) # {}
          /\ EvIdx(chainLen, "data", m2) # {}

\* C4: the messages pending anywhere in the chain never exceed the number of
\* listeners, however many messages were fed; none is pending between calls,
\* and the reference listener retains none.
C4_BoundedForwarding ==
    /\ Pending <= chainLen
    /\ stack = << >> => Pending = 0
    /\ held[chainLen] = 0

\* C4 witness: every listener of a chain of three holds the second message
\* at once, after the first went through a NoOp terminal.
C4_Witness ==
    /\ chainLen >= 3
    /\ Len(msgs) >= 2
    /\ Pending = chainLen
    /\ EvIdx(chainLen, "data", 1) # {}

\* C5: at most one call is active on the head (and on every listener) at any
\* instant, so side data injected during an on_data call enters the chain
\* only after that call has returned.
C5_SingleEntry ==
    /\ \A i \in 1..Len(stack) : stack[i].l = i
    /\ Len(stack) <= chainLen
    /\ \A sd \in Injected :
          InFlight("side", sd) => ~\E m \in 1..Len(msgs) : InFlight("data", m)

\* C5 witness: side data was injected while an on_data call is active two
\* listeners deep, and waits for that call to return.
C5_Witness ==
    /\ inbox # << >>
    /\ Len(stack) >= 2
    /\ stack[1].kind = "data"

\* C6: side data a stage publishes while processing message M has been
\* received by the listener it owns by the time M's on_data call on the head
\* returns, and before the driver's next call on the head.
C6_PublishedBeforeReturn ==
    \A sd \in Published :
        LET by == sides[sd].by
            m == sides[sd].msg
        IN  /\ ~InFlight("data", m) => EvIdx(by + 1, "side", sd) # {}
            /\ \A j \in HeadCalls :
                  j > Pos(1, "data", m) =>
                      /\ EvIdx(by + 1, "side", sd) # {}
                      /\ Pos(by + 1, "side", sd) < j

\* C6 witness: a stage published side data while processing the first
\* message, and the driver has since presented the next message.
C6_Witness ==
    \E sd \in Published :
        /\ sides[sd].msg = 1
        /\ EvIdx(1, "data", 2) # {}
        /\ EvIdx(sides[sd].by + 1, "side", sd) # {}

(***************************************************************************)
(* ConnectionStream: a TcpListener and one slot, next, for the websocket   *)
(* upgrade (accept_async) of the connection accepted last.                 *)
(***************************************************************************)
\* ConnectionStream::new: the listener bound, next: None.
InitConn ==
    /\ timing = [received_on_wire |-> 1, other_times |-> TypeMapDefault]
    /\ tmHist = << >>
    /\ tmGot = [T |-> None, r |-> None, n |-> 0]
    /\ chainLen = 1
    /\ termKind = "NoOp"
    /\ stack = << >>
    /\ msgs = << >>
    /\ sides = << >>
    /\ inbox = << >>
    /\ log = << >>
    /\ held = [l \in 1..MaxChain |-> 0]
    /\ events = << >>
    /\ backlog = << >>
    /\ acceptErr = FALSE
    /\ nAcceptErr = 0
    /\ next = None
    /\ hs = [c \in Conns |-> "none"]
    /\ yielded = << >>
    /\ accepted = << >>
    /\ lastPoll = NoPoll
    /\ prevPoll = NoPoll
    /\ wsIn = [c \in SConns |-> << >>]
    /\ wsEnded = [c \in SConns |-> FALSE]
    /\ wsOut = [c \in SConns |-> << >>]
    /\ wsBroken = [c \in SConns |-> FALSE]
    /\ scState = [c \in SConns |-> "open"]
    /\ scItems = [c \in SConns |-> << >>]
    /\ scSends = [c \in SConns |-> << >>]
    /\ undecodable = [l \in 1..MaxChain |-> {}]
    /\ degraded = {}
    /\ mtu = None
    /\ mtuBuild = "release"
    /\ mtuCalls = << >>
    /\ mtuPanicked = FALSE
    /\ edState = "Disabled"
    /\ edLeft = 0
    /\ edMax = None
    /\ edWrites = << >>
    /\ edSent = 0
    /\ edPanicked = FALSE
    /\ h2Pc = "start"
    /\ h2ReqEos = TRUE
    /\ h2Script = << >>
    /\ h2Wire = << >>
    /\ h2AckDue = FALSE
    /\ h2Stream = "idle"
    /\ h2Status = None
    /\ h2Resp = None
    /\ h2Buf = << >>
    /\ h2Chunks = << >>
    /\ h2Reads = << >>
    /\ h2Conn = "open"

\* A bug: a pending upgrade is dropped, the slot freed for the next accept.
PollUpgradeDropsPending(nx, h) ==
    LET c == nx[1]
    IN  IF h[c] = "waiting"
        THEN [next |-> None, ret |-> "Pending", item |-> None]
        ELSE IF h[c] = "err"
        THEN [next |-> None, ret |-> "Err", item |-> Some(<<"Err", c>>)]
        ELSE [next |-> None, ret |-> "Ok", item |-> Some(<<"Ok", c>>)]

\* A bug: r? returns the error before the slot is cleared.
PollUpgradeErrKeepsSlot(nx, h) ==
    LET c == nx[1]
    IN  IF h[c] = "waiting"
        THEN [next |-> nx, ret |-> "Pending", item |-> None]
        ELSE IF h[c] = "err"
        THEN [next |-> nx, ret |-> "Err", item |-> Some(<<"Err", c>>)]
        ELSE [next |-> None, ret |-> "Ok", item |-> Some(<<"Ok", c>>)]

\* The Some(p) arm: Future::poll(p, cx).  Pending: return Pending, the slot
\* kept.  Ready(r): the slot is cleared, then r? yields Err, or
\* Ok(ServerConnection::new(wss)).
PollUpgrade(nx, h) ==
    LET c == nx[1]
    IN  IF h[c] = "waiting"
        THEN [next |-> nx, ret |-> "Pending", item |-> None]
        ELSE IF h[c] = "err"
        THEN [next |-> None, ret |-> "Err", item |-> Some(<<"Err", c>>)]
        ELSE [next |-> None, ret |-> "Ok", item |-> Some(<<"Ok", c>>)]

\* TcpListener::poll_accept: an error, Pending, or the oldest connection.
PollAccept(bl, err) ==
    IF err THEN [ret |-> "Err", stream |-> None]
    ELSE IF bl = << >> THEN [ret |-> "Pending", stream |-> None]
    ELSE [ret |-> "Ready", stream |-> Some(Head(bl))]

\* The loop of poll_next.  cs is the stream with the socket it polls; the
\* result holds the stream afterwards, the sources polled and what is
\* returned.
RECURSIVE PollNextLoop(_, _)

\* A bug: no `continue` after an accept: Pending is returned with the new
\* upgrade future never polled, so nothing will wake the task for it.
PollNextLoopNoContinue(cs, polled) ==
    IF cs.next # None
    THEN LET u == PollUpgrade(cs.next, cs.hs)
         IN  [next |-> u.next, backlog |-> cs.backlog,
              acceptErr |-> cs.acceptErr, took |-> cs.took,
              polled |-> Append(polled, "upgrade"),
              ret |-> u.ret, item |-> u.item]
    ELSE LET a == PollAccept(cs.backlog, cs.acceptErr)
         IN  IF a.ret = "Err"
             THEN [next |-> None, backlog |-> cs.backlog,
                   acceptErr |-> FALSE, took |-> cs.took,
                   polled |-> Append(polled, "accept"),
                   ret |-> "Err", item |-> Some(<<"AcceptErr">>)]
             ELSE IF a.ret = "Pending"
             THEN [next |-> None, backlog |-> cs.backlog,
                   acceptErr |-> cs.acceptErr, took |-> cs.took,
                   polled |-> Append(polled, "accept"),
                   ret |-> "Pending", item |-> None]
             ELSE [next |-> a.stream, backlog |-> Tail(cs.backlog),
                   acceptErr |-> cs.acceptErr,
                   took |-> Append(cs.took, a.stream[1]),
                   polled |-> Append(polled, "accept"),
                   ret |-> "Pending", item |-> None]

\* A bug: an accept error ends the stream (Ready(None)).
PollNextLoopEndsOnAcceptErr(cs, polled) ==
    IF cs.next # None
    THEN LET u == PollUpgrade(cs.next, cs.hs)
         IN  [next |-> u.next, backlog |-> cs.backlog,
              acceptErr |-> cs.acceptErr, took |-> cs.took,
              polled |-> Append(polled, "upgrade"),
              ret |-> u.ret, item |-> u.item]
    ELSE LET a == PollAccept(cs.backlog, cs.acceptErr)
         IN  IF a.ret = "Err"
             THEN [next |-> None, backlog |-> cs.backlog,
                   acceptErr |-> FALSE, took |-> cs.took,
                   polled |-> Append(polled, "accept"),
                   ret |-> "None", item |-> None]
             ELSE IF a.ret = "Pending"
             THEN [next |-> None, backlog |-> cs.backlog,
                   acceptErr |-> cs.acceptErr, took |-> cs.took,
                   polled |-> Append(polled, "accept"),
                   ret |-> "Pending", item |-> None]
             ELSE PollNextLoop([cs EXCEPT !.next = a.stream,
                                          !.backlog = Tail(@),
                                          !.took = Append(@, a.stream[1])],
                               Append(polled, "accept"))

PollNextLoop(cs, polled) ==
    IF cs.next # None
    THEN LET u == PollUpgrade(cs.next, cs.hs)
         IN  [next |-> u.next, backlog |-> cs.backlog,
              acceptErr |-> cs.acceptErr, took |-> cs.took,
              polled |-> Append(polled, "upgrade"),
              ret |-> u.ret, item |-> u.item]
    ELSE LET a == PollAccept(cs.backlog, cs.acceptErr)
         IN  IF a.ret = "Err"
             THEN [next |-> None, backlog |-> cs.backlog,
                   acceptErr |-> FALSE, took |-> cs.took,
                   polled |-> Append(polled, "accept"),
                   ret |-> "Err", item |-> Some(<<"AcceptErr">>)]
             ELSE IF a.ret = "Pending"
             THEN [next |-> None, backlog |-> cs.backlog,
                   acceptErr |-> cs.acceptErr, took |-> cs.took,
                   polled |-> Append(polled, "accept"),
                   ret |-> "Pending", item |-> None]
             ELSE PollNextLoop([cs EXCEPT !.next = a.stream,
                                          !.backlog = Tail(@),
                                          !.took = Append(@, a.stream[1])],
                               Append(polled, "accept"))

\* <ConnectionStream as Stream>::poll_next, one whole call.
PollNext ==
    LET r == PollNextLoop([next |-> next, backlog |-> backlog,
                           acceptErr |-> acceptErr, hs |-> hs,
                           took |-> << >>], << >>)
    IN  /\ next' = r.next
        /\ backlog' = r.backlog
        /\ acceptErr' = r.acceptErr
        /\ accepted' = accepted \o r.took
        /\ yielded' = IF r.item = None THEN yielded
                      ELSE Append(yielded, r.item[1])
        /\ lastPoll' = [had |-> next, polled |-> r.polled, ret |-> r.ret]
        /\ prevPoll' = lastPoll
        /\ UNCHANGED <<hs, nAcceptErr>>
        /\ UNCHANGED notConn

\* A peer opens a TCP connection: it waits in the listening socket's queue.
Connect ==
    /\ \E c \in Conns :
          /\ hs[c] = "none"
          /\ \A d \in Conns : d < c => hs[d] # "none"
          /\ hs' = [hs EXCEPT ![c] = "waiting"]
          /\ backlog' = Append(backlog, c)
    /\ UNCHANGED <<acceptErr, nAcceptErr, next, yielded, accepted,
                   lastPoll, prevPoll>>
    /\ UNCHANGED notConn

\* A peer sends its websocket handshake: its upgrade completes when polled.
PeerHandshake ==
    /\ \E c \in Conns :
          /\ hs[c] = "waiting"
          /\ hs' = [hs EXCEPT ![c] = "ok"]
    /\ UNCHANGED <<backlog, acceptErr, nAcceptErr, next, yielded, accepted,
                   lastPoll, prevPoll>>
    /\ UNCHANGED notConn

\* A peer sends a bad handshake or hangs up: its upgrade fails when polled.
PeerFault ==
    /\ \E c \in Conns :
          /\ hs[c] = "waiting"
          /\ hs' = [hs EXCEPT ![c] = "err"]
    /\ UNCHANGED <<backlog, acceptErr, nAcceptErr, next, yielded, accepted,
                   lastPoll, prevPoll>>
    /\ UNCHANGED notConn

\* The listening socket gets an error (such as EMFILE) to report.
AcceptFault ==
    /\ ~acceptErr
    /\ nAcceptErr < MaxAcceptErrs
    /\ acceptErr' = TRUE
    /\ nAcceptErr' = nAcceptErr + 1
    /\ UNCHANGED <<backlog, next, hs, yielded, accepted, lastPoll, prevPoll>>
    /\ UNCHANGED notConn

ConnNext ==
    \/ PollNext
    \/ Connect
    \/ PeerHandshake
    \/ PeerFault
    \/ AcceptFault

SpecConn == InitConn /\ [][ConnNext]_vars

\* The task that owns the stream polls it whenever it could make progress.
FairSpecConn == InitConn /\ [][ConnNext]_vars /\ WF_vars(PollNext)

(***************************************************************************)
(* Ghost operators over the items yielded.                                 *)
(***************************************************************************)
ItemsFor(c) == {j \in 1..Len(yielded) : yielded[j] \in {<<"Ok", c>>, <<"Err", c>>}}

InSeq(x, sq) == \E j \in 1..Len(sq) : sq[j] = x

\* C7: in every poll_next call made while an upgrade is pending, the
\* listening socket's accept is polled as well.
C7_AcceptPolledWhilePending ==
    lastPoll.had # None => InSeq("accept", lastPoll.polled)

\* C8: a connection whose peer has completed its handshake is eventually
\* yielded as a ServerConnection, whatever the other connection's peer does.
C8_HandshakeLeadsToYield ==
    \A c \in Conns : (hs[c] = "ok") ~> InSeq(<<"Ok", c>>, yielded)

\* C9: a connection poll_accept returned stays in the slot, its upgrade
\* pending, over every later poll_next call until the upgrade completes, and
\* then its result is yielded exactly once.
C9_AcceptedNeverDropped ==
    \A c \in Conns :
        InSeq(c, accepted) =>
            \/ /\ next = Some(c)
               /\ ItemsFor(c) = {}
            \/ /\ next # Some(c)
               /\ Cardinality(ItemsFor(c)) = 1
               /\ hs[c] = "ok" => InSeq(<<"Ok", c>>, yielded)
               /\ hs[c] = "err" => InSeq(<<"Err", c>>, yielded)
               /\ hs[c] \in {"ok", "err"}

\* C9 witness: the first connection's result was yielded, and the second,
\* accepted after it, was kept over a poll_next call that found it pending.
C9_Witness ==
    /\ Len(accepted) = 2
    /\ ItemsFor(accepted[1]) # {}
    /\ next = Some(accepted[2])
    /\ lastPoll.had = next
    /\ lastPoll.ret = "Pending"

\* C10: when a connection's upgrade fails, poll_next yields one Err item for
\* it and clears the slot, and the next poll_next call polls the listening
\* socket's accept again.
C10_UpgradeErrorSurfaced ==
    /\ lastPoll.ret = "Err" /\ lastPoll.polled[Len(lastPoll.polled)] = "upgrade"
          => /\ next = None
             /\ yielded # << >>
             /\ yielded[Len(yielded)][1] = "Err"
             /\ Cardinality(ItemsFor(yielded[Len(yielded)][2])) = 1
             /\ hs[yielded[Len(yielded)][2]] = "err"
    /\ prevPoll.ret = "Err" /\ prevPoll.polled[Len(prevPoll.polled)] = "upgrade"
          => /\ lastPoll.had = None
             /\ lastPoll.polled[1] = "accept"
    /\ \A c \in Conns : InSeq(<<"Err", c>>, yielded) => hs[c] = "err"

\* C10 witness: the first connection's upgrade failed and was yielded as Err;
\* the second connection was then accepted and yielded as a ServerConnection.
C10_Witness ==
    /\ yielded = << <<"Err", 1>>, <<"Ok", 2>> >>
    /\ next = None

(***************************************************************************)
(* ServerConnection: one WebSocketStream, wss.  Inbound, it is a Stream of *)
(* MethodCall; outbound, send and reply write one Text frame each.  The    *)
(* task that reads a connection (the RPC dispatch loop) is not in lib.rs.  *)
(***************************************************************************)
\* What a peer can send: a Text frame holding a method call, a Binary frame
\* whose JSON lacks the method field, a Close frame; or the transport fails.  data is the
\* frame's bytes, as JSON tokens; call is the MethodCall the peer meant.
WsItems ==
    {[kind |-> "Text", data |-> <<"id", "1", "method", "m", "params", "{}">>,
      call |-> Some([id |-> "1", method |-> "m", params |-> "{}"])],
     [kind |-> "Binary", data |-> <<"id", "2", "params", "{}">>,
      call |-> None],
     [kind |-> "Close", data |-> << >>, call |-> None],
     [kind |-> "IoError", data |-> << >>, call |-> None]}

\* tungstenite::Message::into_data: the payload of any kind of message.
IntoData(msg) == msg.data

\* The value filed under key in a sequence of key, value tokens.
RECURSIVE JsonField(_, _)
JsonField(d, key) ==
    IF Len(d) < 2 THEN None
    ELSE IF d[1] = key THEN Some(d[2])
    ELSE JsonField(SubSeq(d, 3, Len(d)), key)

\* A bug: a missing field is filled with a default.
FromSliceLenient(d) ==
    LET f(key) == IF JsonField(d, key) = None THEN "" ELSE JsonField(d, key)[1]
    IN  IF Len(d) % 2 # 0 THEN None
        ELSE Some([id |-> f("id"), method |-> f("method"),
                   params |-> f("params")])

\* serde_json::from_slice::<MethodCall>: id, method and params are required.
FromSlice(d) ==
    IF \/ Len(d) % 2 # 0
       \/ JsonField(d, "id") = None
       \/ JsonField(d, "method") = None
       \/ JsonField(d, "params") = None
    THEN None
    ELSE Some([id |-> JsonField(d, "id")[1],
               method |-> JsonField(d, "method")[1],
               params |-> JsonField(d, "params")[1]])

\* A bug: the stream is shared, a read on one connection takes from all.
WssTakeShared(ws, c) ==
    [d \in SConns |-> IF ws[d] = << >> THEN ws[d] ELSE Tail(ws[d])]

\* self.wss_mut(): the connection reads its own stream only.
WssTake(ws, c) == [ws EXCEPT ![c] = Tail(@)]

\* <ServerConnection as Stream>::poll_next on the stream's state.
ScPollNext(inq, ended) ==
    IF inq = << >>
    THEN IF ended THEN [ret |-> "None", call |-> None]
         ELSE [ret |-> "Pending", call |-> None]
    ELSE IF Head(inq).kind = "IoError"
    THEN [ret |-> "Err", call |-> None]
    ELSE LET parsed == FromSlice(IntoData(Head(inq)))
         IN  IF parsed = None THEN [ret |-> "Err", call |-> None]
             ELSE [ret |-> "Ok", call |-> parsed]

\* A bug: the handler keeps reading a connection after a fault.
HandlerAfterKeepsOpen(ret) == "open"

\* The connection's handler: a method call goes to the RPC dispatcher; a
\* fault or the end of the stream ends the connection.
HandlerAfter(ret) == IF ret \in {"Err", "None"} THEN "closed" ELSE "open"

InitServer ==
    /\ timing = [received_on_wire |-> 1, other_times |-> TypeMapDefault]
    /\ tmHist = << >>
    /\ tmGot = [T |-> None, r |-> None, n |-> 0]
    /\ chainLen = 1
    /\ termKind = "NoOp"
    /\ stack = << >>
    /\ msgs = << >>
    /\ sides = << >>
    /\ inbox = << >>
    /\ log = << >>
    /\ held = [l \in 1..MaxChain |-> 0]
    /\ events = << >>
    /\ backlog = << >>
    /\ acceptErr = FALSE
    /\ nAcceptErr = 0
    /\ next = None
    /\ hs = [c \in Conns |-> "none"]
    /\ yielded = << >>
    /\ accepted = << >>
    /\ lastPoll = NoPoll
    /\ prevPoll = NoPoll
    /\ wsIn = [c \in SConns |-> << >>]
    /\ wsEnded = [c \in SConns |-> FALSE]
    /\ wsOut = [c \in SConns |-> << >>]
    /\ wsBroken = [c \in SConns |-> FALSE]
    /\ scState = [c \in SConns |-> "open"]
    /\ scItems = [c \in SConns |-> << >>]
    /\ scSends = [c \in SConns |-> << >>]
    /\ undecodable = [l \in 1..MaxChain |-> {}]
    /\ degraded = {}
    /\ mtu = None
    /\ mtuBuild = "release"
    /\ mtuCalls = << >>
    /\ mtuPanicked = FALSE
    /\ edState = "Disabled"
    /\ edLeft = 0
    /\ edMax = None
    /\ edWrites = << >>
    /\ edSent = 0
    /\ edPanicked = FALSE
    /\ h2Pc = "start"
    /\ h2ReqEos = TRUE
    /\ h2Script = << >>
    /\ h2Wire = << >>
    /\ h2AckDue = FALSE
    /\ h2Stream = "idle"
    /\ h2Status = None
    /\ h2Resp = None
    /\ h2Buf = << >>
    /\ h2Chunks = << >>
    /\ h2Reads = << >>
    /\ h2Conn = "open"

\* The peer of c sends a frame, or the transport reports an error.
PeerSend ==
    /\ \E c \in SConns, it \in WsItems :
          /\ ~wsEnded[c]
          /\ Len(wsIn[c]) + Len(scItems[c]) < MaxIn
          /\ wsIn' = [wsIn EXCEPT ![c] = Append(@, it)]
    /\ UNCHANGED <<wsEnded, wsOut, wsBroken, scState, scItems, scSends>>
    /\ UNCHANGED notSrv

\* The peer of c disconnects.
PeerClose ==
    /\ \E c \in SConns :
          /\ ~wsEnded[c]
          /\ wsEnded' = [wsEnded EXCEPT ![c] = TRUE]
    /\ UNCHANGED <<wsIn, wsOut, wsBroken, scState, scItems, scSends>>
    /\ UNCHANGED notSrv

\* The handler of c polls its ServerConnection and acts on what it yields.
HandlerPoll ==
    /\ \E c \in SConns :
          /\ scState[c] = "open"
          /\ Len(scItems[c]) <= MaxIn
          /\ LET r == ScPollNext(wsIn[c], wsEnded[c])
             IN  /\ r.ret # "Pending"
                 /\ wsIn' = IF wsIn[c] = << >> THEN wsIn ELSE WssTake(wsIn, c)
                 /\ scItems' = [scItems EXCEPT ![c] =
                        Append(@, [src |-> IF wsIn[c] = << >> THEN None
                                           ELSE Some(Head(wsIn[c])),
                                   ret |-> r.ret, call |-> r.call])]
                 /\ scState' = [scState EXCEPT ![c] = HandlerAfter(r.ret)]
    /\ UNCHANGED <<wsEnded, wsOut, wsBroken, scSends>>
    /\ UNCHANGED notSrv

\* The handler of c drops its ServerConnection: the connection is closed.
HandlerClose ==
    /\ \E c \in SConns :
          /\ scState[c] = "open"
          /\ scState' = [scState EXCEPT ![c] = "closed"]
    /\ UNCHANGED <<wsIn, wsEnded, wsOut, wsBroken, scItems, scSends>>
    /\ UNCHANGED notSrv

ServerNext ==
    \/ PeerSend
    \/ PeerClose
    \/ HandlerPoll
    \/ HandlerClose

SpecServer == InitServer /\ [][ServerNext]_vars

\* Ghosts: the items connection c yielded with the given result.
ItemsWith(c, ret) == {i \in DOMAIN scItems[c] : scItems[c][i].ret = ret}

Malformed(it) == it.src # None /\ it.src[1].kind # "IoError"
                      /\ it.src[1].call = None

\* C11: the inbound stream yields Ok(call) only for a received message whose
\* bytes are a well-formed MethodCall, and then that call; a received message
\* that is not one yields Err; and it yields None exactly when the peer's
\* websocket stream has ended.
C11_InboundWellFormed ==
    \A c \in SConns : \A i \in DOMAIN scItems[c] :
        LET it == scItems[c][i]
        IN  /\ it.ret = "Ok" =>
                 /\ it.src # None
                 /\ it.src[1].call # None
                 /\ it.call = it.src[1].call
            /\ (it.src # None /\ it.src[1].call = None) => it.ret = "Err"
            /\ it.ret = "None" <=> it.src = None
            /\ it.src = None => wsEnded[c]

C11_Witness ==
    \E c, d \in SConns :
        /\ ItemsWith(c, "Ok") # {}
        /\ \E i \in ItemsWith(c, "Err") : Malformed(scItems[c][i])
        /\ ItemsWith(d, "None") # {}

\* C12: after a connection has signalled a fault for malformed bytes it hands
\* no further method call to the dispatcher: the fault is its last item.
C12_FaultTerminatesConnection ==
    \A c \in SConns : \A i \in ItemsWith(c, "Err") :
        /\ i = Len(scItems[c])
        /\ scState[c] = "closed"

C12_Witness ==
    \E c \in SConns :
        /\ \E i \in ItemsWith(c, "Err") : Malformed(scItems[c][i])
        /\ wsIn[c] # << >>
        /\ Head(wsIn[c]).call # None

\* Ghost: everything that belongs to connection c.
ScOf(c) == <<wsIn[c], wsEnded[c], wsOut[c], wsBroken[c], scState[c],
             scItems[c], scSends[c]>>

\* C13: a step in which one connection faults or closes changes neither any
\* other ServerConnection nor the ConnectionStream.
C13_ConnectionIndependence ==
    [][\A c \in SConns :
          (scState[c] = "open" /\ scState'[c] = "closed") =>
              /\ \A d \in SConns \ {c} : ScOf(d)' = ScOf(d)
              /\ connVars' = connVars]_vars

C13_Witness ==
    \E c, d \in SConns :
        /\ c # d
        /\ scState[c] = "closed"
        /\ ItemsWith(c, "Err") # {}
        /\ scState[d] = "open"
        /\ ItemsWith(d, "Ok") # {}
        /\ wsIn[d] # << >>

(***************************************************************************)
(* ServerConnection, outbound: send serializes a Message with serde_json,  *)
(* turns the bytes into a String and writes one Text frame; reply builds a *)
(* Response and sends it.  Both take &mut self: a connection runs one send *)
(* at a time, so a send is one step.                                       *)
(***************************************************************************)
\* serde_json::Value, as far as the model goes: null, and a string given by
\* its code points (233 is U+00E9, outside ASCII).
JsonNull == [kind |-> "null", chars |-> << >>]
JsonStr(cs) == [kind |-> "str", chars |-> cs]
Values == {JsonNull, JsonStr(<<233>>)}

\* chromiumoxide_types::Message: a Response to a call, or an Event.
Response(id, result) == [tag |-> "Response", id |-> id, value |-> result]
Event(params) == [tag |-> "Event", id |-> 0, value |-> params]
OutMsgs == {Response(1, JsonNull), Event(JsonStr(<<233>>))}
ReplyIds == {2}

\* UTF-8 of one code point below 2048.
Utf8Encode(cp) ==
    IF cp < 128 THEN <<cp>> ELSE <<192 + (cp \div 64), 128 + (cp % 64)>>

RECURSIVE Utf8EncodeAll(_)
Utf8EncodeAll(cs) ==
    IF cs = << >> THEN << >>
    ELSE Utf8Encode(Head(cs)) \o Utf8EncodeAll(Tail(cs))

\* A bug: a string is written one byte per code point (Latin-1).
ValueToVecLatin1(v) ==
    IF v.kind = "null" THEN <<110, 117, 108, 108>>
    ELSE <<34>> \o v.chars \o <<34>>

\* serde_json's serialization of a Value: null, or a quoted UTF-8 string.
ValueToVec(v) ==
    IF v.kind = "null" THEN <<110, 117, 108, 108>>
    ELSE <<34>> \o Utf8EncodeAll(v.chars) \o <<34>>

\* serde_json::to_vec(&response): an object that opens with the id of a
\* Response, or with 101 for an Event; it has no failing case for a Message.
ToVec(m) ==
    Some(<<123, IF m.tag = "Response" THEN 48 + m.id ELSE 101, 58>>
         \o ValueToVec(m.value) \o <<125>>)

\* String::from_utf8: the code points, or None (an Err) on invalid UTF-8.
RECURSIVE FromUtf8(_)
FromUtf8(bs) ==
    IF bs = << >> THEN Some(<< >>)
    ELSE IF bs[1] < 128
    THEN LET rest == FromUtf8(Tail(bs))
         IN  IF rest = None THEN None ELSE Some(<<bs[1]>> \o rest[1])
    ELSE IF /\ bs[1] \in 194..223
            /\ Len(bs) >= 2
            /\ bs[2] \in 128..191
    THEN LET rest == FromUtf8(SubSeq(bs, 3, Len(bs)))
         IN  IF rest = None THEN None
             ELSE Some(<<(bs[1] - 192) * 64 + (bs[2] - 128)>> \o rest[1])
    ELSE None

TextFrame(str) == [kind |-> "Text", text |-> str]

\* A bug: the frame is queued in front of the frames not yet flushed.
SendWritePrepend(out, frame) == <<frame>> \o out

\* self.wss.send(frame).await on a working transport: the frame goes out
\* after those written before.
SendWrite(out, frame) == Append(out, frame)

\* ServerConnection::send.  ErrSer is to_vec's Err returned by `?`, Panic
\* the unwrap of from_utf8's Err, ErrIo the websocket's Err returned by `?`.
ScSend(out, broken, m) ==
    LET text == ToVec(m)
    IN  IF text = None THEN [out |-> out, res |-> "ErrSer"]
        ELSE LET str == FromUtf8(text[1])
             IN  IF str = None THEN [out |-> out, res |-> "Panic"]
                 ELSE IF broken THEN [out |-> out, res |-> "ErrIo"]
                 ELSE [out |-> SendWrite(out, TextFrame(str[1])),
                       res |-> "Ok"]

InitSend ==
    /\ timing = [received_on_wire |-> 1, other_times |-> TypeMapDefault]
    /\ tmHist = << >>
    /\ tmGot = [T |-> None, r |-> None, n |-> 0]
    /\ chainLen = 1
    /\ termKind = "NoOp"
    /\ stack = << >>
    /\ msgs = << >>
    /\ sides = << >>
    /\ inbox = << >>
    /\ log = << >>
    /\ held = [l \in 1..MaxChain |-> 0]
    /\ events = << >>
    /\ backlog = << >>
    /\ acceptErr = FALSE
    /\ nAcceptErr = 0
    /\ next = None
    /\ hs = [c \in Conns |-> "none"]
    /\ yielded = << >>
    /\ accepted = << >>
    /\ lastPoll = NoPoll
    /\ prevPoll = NoPoll
    /\ wsIn = [c \in SConns |-> << >>]
    /\ wsEnded = [c \in SConns |-> FALSE]
    /\ wsOut = [c \in SConns |-> << >>]
    /\ wsBroken = [c \in SConns |-> FALSE]
    /\ scState = [c \in SConns |-> "open"]
    /\ scItems = [c \in SConns |-> << >>]
    /\ scSends = [c \in SConns |-> << >>]
    /\ undecodable = [l \in 1..MaxChain |-> {}]
    /\ degraded = {}
    /\ mtu = None
    /\ mtuBuild = "release"
    /\ mtuCalls = << >>
    /\ mtuPanicked = FALSE
    /\ edState = "Disabled"
    /\ edLeft = 0
    /\ edMax = None
    /\ edWrites = << >>
    /\ edSent = 0
    /\ edPanicked = FALSE
    /\ h2Pc = "start"
    /\ h2ReqEos = TRUE
    /\ h2Script = << >>
    /\ h2Wire = << >>
    /\ h2AckDue = FALSE
    /\ h2Stream = "idle"
    /\ h2Status = None
    /\ h2Resp = None
    /\ h2Buf = << >>
    /\ h2Chunks = << >>
    /\ h2Reads = << >>
    /\ h2Conn = "open"

\* The number of send calls made so far, on all connections.
RECURSIVE SendsMade(_)
SendsMade(cs) ==
    IF cs = {} THEN 0
    ELSE LET c == CHOOSE c \in cs : TRUE
         IN  Len(scSends[c]) + SendsMade(cs \ {c})

\* One call of send(m) on connection c, from start to return.
Send ==
    /\ \E c \in SConns, m \in OutMsgs :
          /\ scState[c] = "open"
          /\ SendsMade(SConns) < MaxOut
          /\ LET r == ScSend(wsOut[c], wsBroken[c], m)
             IN  /\ wsOut' = [wsOut EXCEPT ![c] = r.out]
                 /\ scSends' = [scSends EXCEPT ![c] =
                        Append(@, [msg |-> m, res |-> r.res,
                                   broken |-> wsBroken[c]])]
    /\ UNCHANGED <<wsIn, wsEnded, wsBroken, scState, scItems>>
    /\ UNCHANGED notSrv

\* ServerConnection::reply: send of a Response with the result, no error.
Reply ==
    /\ \E c \in SConns, id \in ReplyIds, result \in Values :
          /\ scState[c] = "open"
          /\ SendsMade(SConns) < MaxOut
          /\ LET m == Response(id, result)
                 r == ScSend(wsOut[c], wsBroken[c], m)
             IN  /\ wsOut' = [wsOut EXCEPT ![c] = r.out]
                 /\ scSends' = [scSends EXCEPT ![c] =
                        Append(@, [msg |-> m, res |-> r.res,
                                   broken |-> wsBroken[c]])]
    /\ UNCHANGED <<wsIn, wsEnded, wsBroken, scState, scItems>>
    /\ UNCHANGED notSrv

\* The transport of c fails: from now on writing to the websocket errs.
TransportBreak ==
    /\ \E c \in SConns :
          /\ ~wsBroken[c]
          /\ wsBroken' = [wsBroken EXCEPT ![c] = TRUE]
    /\ UNCHANGED <<wsIn, wsEnded, wsOut, scState, scItems, scSends>>
    /\ UNCHANGED notSrv

SendNext ==
    \/ Send
    \/ Reply
    \/ TransportBreak

SpecSend == InitSend /\ [][SendNext]_vars

\* Ghosts: the messages of the successful sends of c, in call order, and the
\* frame a peer must see for a message.
RECURSIVE OkMsgs(_)
OkMsgs(sends) ==
    IF sends = << >> THEN << >>
    ELSE (IF Head(sends).res = "Ok" THEN <<Head(sends).msg>> ELSE << >>)
         \o OkMsgs(Tail(sends))

WireOf(m) ==
    [kind |-> "Text",
     text |-> <<123, IF m.tag = "Response" THEN 48 + m.id ELSE 101, 58>>
              \o (IF m.value.kind = "null" THEN <<110, 117, 108, 108>>
                  ELSE <<34>> \o m.value.chars \o <<34>>)
              \o <<125>>]

\* C14: on one connection the frames on the websocket are those of the
\* successful send and reply calls, in the order the calls were made.
C14_SendOrder ==
    \A c \in SConns :
        /\ Len(wsOut[c]) = Len(OkMsgs(scSends[c]))
        /\ \A i \in DOMAIN wsOut[c] : wsOut[c][i] = WireOf(OkMsgs(scSends[c])[i])

C14_Witness ==
    \E c \in SConns :
        /\ Len(wsOut[c]) >= 2
        /\ wsOut[c][1] # wsOut[c][2]
        /\ \E i \in DOMAIN scSends[c] : scSends[c][i].msg.id \in ReplyIds

\* C15: send returns Err only when writing to the websocket failed, and
\* neither errs nor panics on serialization or on the UTF-8 conversion.
C15_SendFailsOnlyOnIo ==
    \A c \in SConns : \A i \in DOMAIN scSends[c] :
        \/ scSends[c][i].res = "Ok" /\ ~scSends[c][i].broken
        \/ scSends[c][i].res = "ErrIo" /\ scSends[c][i].broken

C15_Witness ==
    \E c \in SConns : \E i, j \in DOMAIN scSends[c] :
        /\ scSends[c][i].res = "Ok"
        /\ scSends[c][i].msg.value.kind = "str"
        /\ scSends[c][j].res = "ErrIo"

(***************************************************************************)
(* Decode faults.  The stages of a chain are protocol decoders; they are   *)
(* not in listener.rs.  A stage that cannot decode a message keeps the     *)
(* fault to itself: it drops the message, or forwards a marked partial     *)
(* result, or gives up on the flow; on_data returns () in every case.      *)
(***************************************************************************)
\* What the capture source feeds: flow A with a truncated or a whole
\* message, flow B with whole messages.
FaultInputs ==
    {[target |-> "A", to_client |-> TRUE, data |-> <<72>>],
     [target |-> "A", to_client |-> TRUE, data |-> <<72, 105>>],
     [target |-> "B", to_client |-> FALSE, data |-> <<0, 255>>]}

\* A message shorter than its two-byte header cannot be decoded.
DecodeFault(data) == Len(data) < Len(<<0, 0>>)

\* A bug: once a stage gave up on a flow it decodes no flow at all.
StageAcceptsPoisoned(bad, m) == ~DecodeFault(m.data) /\ bad = {}

\* A stage decodes a message when it is whole and its flow is not one the
\* stage has given up on: the flow table is keyed by flow identity.
StageAccepts(bad, m) == ~DecodeFault(m.data) /\ m.target \notin bad

InitFault ==
    /\ timing = [received_on_wire |-> 1, other_times |-> TypeMapDefault]
    /\ tmHist = << >>
    /\ tmGot = [T |-> None, r |-> None, n |-> 0]
    /\ chainLen \in 2..MaxChain
    /\ termKind \in TermKinds
    /\ stack = << >>
    /\ msgs = << >>
    /\ sides = << >>
    /\ inbox = << >>
    /\ log = << >>
    /\ held = [l \in 1..MaxChain |-> 0]
    /\ events = << >>
    /\ backlog = << >>
    /\ acceptErr = FALSE
    /\ nAcceptErr = 0
    /\ next = None
    /\ hs = [c \in Conns |-> "none"]
    /\ yielded = << >>
    /\ accepted = << >>
    /\ lastPoll = NoPoll
    /\ prevPoll = NoPoll
    /\ wsIn = [c \in SConns |-> << >>]
    /\ wsEnded = [c \in SConns |-> FALSE]
    /\ wsOut = [c \in SConns |-> << >>]
    /\ wsBroken = [c \in SConns |-> FALSE]
    /\ scState = [c \in SConns |-> "open"]
    /\ scItems = [c \in SConns |-> << >>]
    /\ scSends = [c \in SConns |-> << >>]
    /\ undecodable = [l \in 1..MaxChain |-> {}]
    /\ degraded = {}
    /\ mtu = None
    /\ mtuBuild = "release"
    /\ mtuCalls = << >>
    /\ mtuPanicked = FALSE
    /\ edState = "Disabled"
    /\ edLeft = 0
    /\ edMax = None
    /\ edWrites = << >>
    /\ edSent = 0
    /\ edPanicked = FALSE
    /\ h2Pc = "start"
    /\ h2ReqEos = TRUE
    /\ h2Script = << >>
    /\ h2Wire = << >>
    /\ h2AckDue = FALSE
    /\ h2Stream = "idle"
    /\ h2Status = None
    /\ h2Resp = None
    /\ h2Buf = << >>
    /\ h2Chunks = << >>
    /\ h2Reads = << >>
    /\ h2Conn = "open"

\* The capture source feeds the next message of the capture to the head.
FaultFeed ==
    /\ CanEnter(stack)
    /\ Len(msgs) < MaxMsgs + 1
    /\ \E m \in FaultInputs : msgs' = Append(msgs, m)
    /\ stack' = Append(stack, Frame(1, "data", Len(msgs) + 1))
    /\ events' = Append(events, [l |-> 1, kind |-> "data", id |-> Len(msgs) + 1])
    /\ UNCHANGED <<chainLen, termKind, sides, inbox, log, held>>
    /\ UNCHANGED fltVars
    /\ UNCHANGED notFault

\* A stage decodes the message, or is handed a marked partial result, and
\* passes it to the listener it owns.
StageDecodeForward ==
    /\ stack # << >>
    /\ Top.l < chainLen /\ Top.pc = "enter"
    /\ \/ Top.id \in degraded
       \/ StageAccepts(undecodable[Top.l], msgs[Top.id])
    /\ LET c == StageCall(SetTopPc(stack, "called"), events, Top.l,
                           "data", Top.id)
       IN  /\ stack' = c.stk
           /\ events' = c.ev
    /\ UNCHANGED <<chainLen, termKind, msgs, sides, inbox, log, held>>
    /\ UNCHANGED fltVars
    /\ UNCHANGED notFault

\* A stage cannot decode the message and drops it: on_data returns.
StageFaultDrop ==
    /\ stack # << >>
    /\ Top.l < chainLen /\ Top.pc = "enter"
    /\ Top.id \notin degraded
    /\ ~StageAccepts(undecodable[Top.l], msgs[Top.id])
    /\ stack' = Pop(stack)
    /\ UNCHANGED <<chainLen, termKind, msgs, sides, inbox, log, held, events>>
    /\ UNCHANGED fltVars
    /\ UNCHANGED notFault

\* A stage cannot decode the message and forwards what it has, marked.
StageFaultDegrade ==
    /\ stack # << >>
    /\ Top.l < chainLen /\ Top.pc = "enter"
    /\ Top.id \notin degraded
    /\ ~StageAccepts(undecodable[Top.l], msgs[Top.id])
    /\ degraded' = degraded \cup {Top.id}
    /\ LET c == StageCall(SetTopPc(stack, "called"), events, Top.l,
                           "data", Top.id)
       IN  /\ stack' = c.stk
           /\ events' = c.ev
    /\ UNCHANGED <<chainLen, termKind, msgs, sides, inbox, log, held>>
    /\ UNCHANGED undecodable
    /\ UNCHANGED notFault

\* A stage cannot decode the message, gives up on its flow and returns.
StageFaultMark ==
    /\ stack # << >>
    /\ Top.l < chainLen /\ Top.pc = "enter"
    /\ Top.id \notin degraded
    /\ DecodeFault(msgs[Top.id].data)
    /\ undecodable' = [undecodable EXCEPT ![Top.l] =
                           @ \cup {msgs[Top.id].target}]
    /\ stack' = Pop(stack)
    /\ UNCHANGED <<chainLen, termKind, msgs, sides, inbox, log, held, events>>
    /\ UNCHANGED degraded
    /\ UNCHANGED notFault

\* The listener a stage called has returned; the stage returns.
StageUnwind ==
    /\ stack # << >>
    /\ Top.l < chainLen /\ Top.pc = "called"
    /\ stack' = Pop(stack)
    /\ UNCHANGED <<chainLen, termKind, msgs, sides, inbox, log, held, events>>
    /\ UNCHANGED fltVars
    /\ UNCHANGED notFault

FaultNext ==
    \/ FaultFeed
    \/ StageDecodeForward
    \/ StageFaultDrop
    \/ StageFaultDegrade
    \/ StageFaultMark
    \/ StageUnwind
    \/ TerminalCall

SpecFault == InitFault /\ [][FaultNext]_vars

\* Ghost: how often the terminal listener was given message id.
AtTerminal(id) == Cardinality(EvIdx(chainLen, "data", id))

\* C16: with decode faults on flow A, every message of flow B reaches the
\* terminal listener, once and unmarked; a faulty message of A reaches it
\* not at all or marked; and no on_data call is left unable to return.
C16_FaultIsolation ==
    /\ stack = << >> =>
          \A id \in 1..Len(msgs) :
              /\ msgs[id].target = "B" =>
                     AtTerminal(id) = 1 /\ id \notin degraded
              /\ DecodeFault(msgs[id].data) =>
                     AtTerminal(id) = 0 \/ id \in degraded
    /\ stack # << >> => ENABLED FaultNext

C16_Witness ==
    /\ stack = << >>
    /\ Len(msgs) >= 3
    /\ msgs[1].target = "A" /\ DecodeFault(msgs[1].data)
    /\ "A" \in undecodable[1]
    /\ msgs[2].target = "B" /\ AtTerminal(2) = 1
    /\ msgs[3].target = "A" /\ 3 \in degraded /\ AtTerminal(3) = 1

(***************************************************************************)
(* TimingInfo again: timestamps stay.                                      *)
(***************************************************************************)
\* C17: no TypeMap operation removes a timestamp: a time-kind that has a
\* value before a step has one after it; and no operation on other_times
\* changes received_on_wire.
C17_TimestampsNeverRemoved ==
    [][/\ \A T \in TypeIds :
             TypeMapGet(timing.other_times, T) # None
                 => TypeMapGet(timing'.other_times, T) # None
       /\ timing'.received_on_wire = timing.received_on_wire]_vars

\* C17 witness: T got its value first, other kinds were inserted after it,
\* and a later get<T>() returned T's value.
C17_Witness ==
    /\ Len(tmHist) >= 3
    /\ tmHist[1].T # tmHist[2].T
    /\ tmHist[1].T # tmHist[3].T
    /\ tmGot.n = Len(tmHist)
    /\ tmGot.T = Some(tmHist[1].T)
    /\ tmGot.r = Some(tmHist[1].v)

(***************************************************************************)
(* HexDumpListener's output.                                               *)
(***************************************************************************)
\* Ghost: the on_data calls the terminal listener received, in order.  The
\* k-th line of a HexDumpListener's output is written by the k-th of them.
TerminalData ==
    SelectSeq(events, LAMBDA e : e.l = chainLen /\ e.kind = "data")

\* C18: HexDumpListener writes the same line for the same payload bytes,
\* flow identity and direction, whatever it was given before.
C18_HexDumpDeterministic ==
    termKind = "HexDump" =>
        /\ Len(log) <= Len(TerminalData)
        /\ \A i, j \in DOMAIN log :
              msgs[TerminalData[i].id] = msgs[TerminalData[j].id]
                  => log[i] = log[j]

\* C18 witness: the same message twice, the terminal listener's
\* on_side_data called in between.
C18_Witness ==
    /\ termKind = "HexDump"
    /\ Len(log) = 2
    /\ msgs[TerminalData[1].id] = msgs[TerminalData[2].id]
    /\ \E s \in 1..Len(sides) :
          /\ EvIdx(chainLen, "side", s) # {}
          /\ Pos(chainLen, "data", TerminalData[1].id)
                 < Pos(chainLen, "side", s)
          /\ Pos(chainLen, "side", s)
                 < Pos(chainLen, "data", TerminalData[2].id)

(***************************************************************************)
(* ClientConfig::set_mtu.                                                  *)
(***************************************************************************)
\* fragmenter::PACKET_OVERHEAD, the TLS record header: the 5 of set_mtu's
\* documentation.
PACKET_OVERHEAD == 5

Builds == {"release", "debug", "test"}

MtuArgs == {None} \cup {Some(x) : x \in 0..MaxMtu}

\* usize::checked_sub
CheckedSub(x, y) == IF x >= y THEN Some(x - y) ELSE None

\* if !cfg!(test) { debug_assert!(x > PACKET_OVERHEAD) }: the assertion is
\* compiled in with debug assertions on, and skipped under cfg(test).
DebugAssertFires(build, x) == build = "debug" /\ ~(x > PACKET_OVERHEAD)

\* set_mtu(&arg) on a config whose mtu is cur.
SetMtu(build, cur, arg) ==
    IF arg # None
    THEN IF DebugAssertFires(build, arg[1])
         THEN [mtu |-> cur, panicked |-> TRUE]
         ELSE [mtu |-> CheckedSub(arg[1], PACKET_OVERHEAD), panicked |-> FALSE]
    ELSE [mtu |-> None, panicked |-> FALSE]

InitMtu ==
    /\ timing = [received_on_wire |-> 1, other_times |-> TypeMapDefault]
    /\ tmHist = << >>
    /\ tmGot = [T |-> None, r |-> None, n |-> 0]
    /\ chainLen = 1
    /\ termKind = "NoOp"
    /\ stack = << >>
    /\ msgs = << >>
    /\ sides = << >>
    /\ inbox = << >>
    /\ log = << >>
    /\ held = [l \in 1..MaxChain |-> 0]
    /\ events = << >>
    /\ backlog = << >>
    /\ acceptErr = FALSE
    /\ nAcceptErr = 0
    /\ next = None
    /\ hs = [c \in Conns |-> "none"]
    /\ yielded = << >>
    /\ accepted = << >>
    /\ lastPoll = NoPoll
    /\ prevPoll = NoPoll
    /\ wsIn = [c \in SConns |-> << >>]
    /\ wsEnded = [c \in SConns |-> FALSE]
    /\ wsOut = [c \in SConns |-> << >>]
    /\ wsBroken = [c \in SConns |-> FALSE]
    /\ scState = [c \in SConns |-> "open"]
    /\ scItems = [c \in SConns |-> << >>]
    /\ scSends = [c \in SConns |-> << >>]
    /\ undecodable = [l \in 1..MaxChain |-> {}]
    /\ degraded = {}
    /\ mtu = None
    /\ mtuBuild \in Builds
    /\ mtuCalls = << >>
    /\ mtuPanicked = FALSE
    /\ edState = "Disabled"
    /\ edLeft = 0
    /\ edMax = None
    /\ edWrites = << >>
    /\ edSent = 0
    /\ edPanicked = FALSE
    /\ h2Pc = "start"
    /\ h2ReqEos = TRUE
    /\ h2Script = << >>
    /\ h2Wire = << >>
    /\ h2AckDue = FALSE
    /\ h2Stream = "idle"
    /\ h2Status = None
    /\ h2Resp = None
    /\ h2Buf = << >>
    /\ h2Chunks = << >>
    /\ h2Reads = << >>
    /\ h2Conn = "open"

\* config.set_mtu(&arg)
SetMtuCall ==
    /\ ~mtuPanicked
    /\ Len(mtuCalls) < MaxMtuCalls
    /\ \E arg \in MtuArgs :
          LET r == SetMtu(mtuBuild, mtu, arg)
          IN  /\ mtu' = r.mtu
              /\ mtuPanicked' = r.panicked
              /\ mtuCalls' = Append(mtuCalls, arg)
    /\ UNCHANGED mtuBuild
    /\ UNCHANGED notMtu

MtuNext == SetMtuCall

SpecMtu == InitMtu /\ [][MtuNext]_vars

\* C19: after set_mtu(Some(x)), mtu is None when x is not greater than
\* PACKET_OVERHEAD and Some(x - PACKET_OVERHEAD) when it is; after
\* set_mtu(None), mtu is None.
C19_SetMtu ==
    mtuCalls # << >> =>
        LET arg == mtuCalls[Len(mtuCalls)]
        IN  /\ arg = None => mtu = None
            /\ (arg # None /\ arg[1] <= PACKET_OVERHEAD) => mtu = None
            /\ (arg # None /\ arg[1] > PACKET_OVERHEAD)
                   => mtu = Some(arg[1] - PACKET_OVERHEAD)

(***************************************************************************)
(* EarlyData: the client's TLS1.3 early-data allowance.  The handshake     *)
(* calls enable, accepted, rejected and finished; the application writes   *)
(* through ClientConnection::early_data().                                 *)
(***************************************************************************)
EarlyDataStates == {"Disabled", "Ready", "Accepted", "AcceptedFinished",
                    "Rejected"}

\* EarlyData::new
EarlyDataNew == [state |-> "Disabled", left |-> 0]

IsEnabled(ed) == ed.state \in {"Ready", "Accepted"}

IsAccepted(ed) == ed.state \in {"Accepted", "AcceptedFinished"}

\* The handshake's calls.  Each gives the EarlyData after the call and
\* whether an assertion fired (which leaves the EarlyData as it was).
Enable(ed, max_data) ==
    IF ed.state # "Disabled" THEN [ed |-> ed, panicked |-> TRUE]
    ELSE [ed |-> [state |-> "Ready", left |-> max_data], panicked |-> FALSE]

Rejected(ed) == [ed |-> [ed EXCEPT !.state = "Rejected"], panicked |-> FALSE]

Accepted(ed) ==
    IF ed.state # "Ready" THEN [ed |-> ed, panicked |-> TRUE]
    ELSE [ed |-> [ed EXCEPT !.state = "Accepted"], panicked |-> FALSE]

\* A bug: finished does not check the state it is called in.
FinishedNoPanic(ed) ==
    [ed |-> [ed EXCEPT !.state = "AcceptedFinished"], panicked |-> FALSE]

Finished(ed) ==
    IF ed.state # "Accepted" THEN [ed |-> ed, panicked |-> TRUE]
    ELSE [ed |-> [ed EXCEPT !.state = "AcceptedFinished"], panicked |-> FALSE]

\* A bug: the write is not clamped to what is left.
CheckWriteNoClamp(ed, sz) ==
    CASE ed.state = "Disabled" ->
             [ed |-> ed, res |-> "Unreachable", take |-> 0]
      [] IsEnabled(ed) ->
             [ed |-> [ed EXCEPT !.left = IF @ < sz THEN 0 ELSE @ - sz],
              res |-> "Ok", take |-> sz]
      [] OTHER -> [ed |-> ed, res |-> "InvalidInput", take |-> 0]

\* A bug: only Disabled is told apart; a write after the early data was
\* rejected or finished is served like one before.
CheckWriteIgnoresState(ed, sz) ==
    IF ed.state = "Disabled"
    THEN [ed |-> ed, res |-> "Unreachable", take |-> 0]
    ELSE IF ed.left < sz
    THEN [ed |-> [ed EXCEPT !.left = 0], res |-> "Ok", take |-> ed.left]
    ELSE [ed |-> [ed EXCEPT !.left = @ - sz], res |-> "Ok", take |-> sz]

\* EarlyData::check_write
CheckWrite(ed, sz) ==
    CASE ed.state = "Disabled" ->
             [ed |-> ed, res |-> "Unreachable", take |-> 0]
      [] IsEnabled(ed) ->
             IF ed.left < sz
             THEN [ed |-> [ed EXCEPT !.left = 0], res |-> "Ok",
                   take |-> ed.left]
             ELSE [ed |-> [ed EXCEPT !.left = @ - sz], res |-> "Ok",
                   take |-> sz]
      [] OTHER -> [ed |-> ed, res |-> "InvalidInput", take |-> 0]

\* ClientConnection::write_early_data: check_write, then, on Ok(sz),
\* send_early_plaintext(&data[..sz]).
WriteEarlyData(ed, sent, len) ==
    LET r == CheckWrite(ed, len)
    IN  [ed |-> r.ed, res |-> r.res, take |-> r.take,
         sent |-> IF r.res = "Ok" THEN sent + r.take ELSE sent]

\* A bug: early_data() hands out a writer in every state.
EarlyDataWriterAlways(ed) == Some("WriteEarlyData")

\* ClientConnection::early_data: a writer, or None.
EarlyDataWriter(ed) == IF IsEnabled(ed) THEN Some("WriteEarlyData") ELSE None

InitEarlyData ==
    /\ timing = [received_on_wire |-> 1, other_times |-> TypeMapDefault]
    /\ tmHist = << >>
    /\ tmGot = [T |-> None, r |-> None, n |-> 0]
    /\ chainLen = 1
    /\ termKind = "NoOp"
    /\ stack = << >>
    /\ msgs = << >>
    /\ sides = << >>
    /\ inbox = << >>
    /\ log = << >>
    /\ held = [l \in 1..MaxChain |-> 0]
    /\ events = << >>
    /\ backlog = << >>
    /\ acceptErr = FALSE
    /\ nAcceptErr = 0
    /\ next = None
    /\ hs = [c \in Conns |-> "none"]
    /\ yielded = << >>
    /\ accepted = << >>
    /\ lastPoll = NoPoll
    /\ prevPoll = NoPoll
    /\ wsIn = [c \in SConns |-> << >>]
    /\ wsEnded = [c \in SConns |-> FALSE]
    /\ wsOut = [c \in SConns |-> << >>]
    /\ wsBroken = [c \in SConns |-> FALSE]
    /\ scState = [c \in SConns |-> "open"]
    /\ scItems = [c \in SConns |-> << >>]
    /\ scSends = [c \in SConns |-> << >>]
    /\ undecodable = [l \in 1..MaxChain |-> {}]
    /\ degraded = {}
    /\ mtu = None
    /\ mtuBuild = "release"
    /\ mtuCalls = << >>
    /\ mtuPanicked = FALSE
    /\ edState = "Disabled"
    /\ edLeft = 0
    /\ edMax = None
    /\ edWrites = << >>
    /\ edSent = 0
    /\ edPanicked = FALSE
    /\ h2Pc = "start"
    /\ h2ReqEos = TRUE
    /\ h2Script = << >>
    /\ h2Wire = << >>
    /\ h2AckDue = FALSE
    /\ h2Stream = "idle"
    /\ h2Status = None
    /\ h2Resp = None
    /\ h2Buf = << >>
    /\ h2Chunks = << >>
    /\ h2Reads = << >>
    /\ h2Conn = "open"

\* The handshake offers early data: the ticket allows max_data bytes.
EdEnable ==
    /\ ~edPanicked
    /\ \E max_data \in 0..MaxData :
          LET r == Enable([state |-> edState, left |-> edLeft], max_data)
          IN  /\ edState' = r.ed.state
              /\ edLeft' = r.ed.left
              /\ edPanicked' = r.panicked
              /\ edMax' = IF r.panicked THEN edMax ELSE Some(max_data)
    /\ UNCHANGED <<edWrites, edSent>>
    /\ UNCHANGED notEd

\* The server refused the early data.
EdRejected ==
    /\ ~edPanicked
    /\ LET r == Rejected([state |-> edState, left |-> edLeft])
       IN  /\ edState' = r.ed.state
           /\ edLeft' = r.ed.left
           /\ edPanicked' = r.panicked
    /\ UNCHANGED <<edMax, edWrites, edSent>>
    /\ UNCHANGED notEd

\* The server accepted the early data.
EdAccepted ==
    /\ ~edPanicked
    /\ LET r == Accepted([state |-> edState, left |-> edLeft])
       IN  /\ edState' = r.ed.state
           /\ edLeft' = r.ed.left
           /\ edPanicked' = r.panicked
    /\ UNCHANGED <<edMax, edWrites, edSent>>
    /\ UNCHANGED notEd

\* The handshake has sent EndOfEarlyData.
EdFinished ==
    /\ ~edPanicked
    /\ LET r == Finished([state |-> edState, left |-> edLeft])
       IN  /\ edState' = r.ed.state
           /\ edLeft' = r.ed.left
           /\ edPanicked' = r.panicked
    /\ UNCHANGED <<edMax, edWrites, edSent>>
    /\ UNCHANGED notEd

\* The application asks for the writer with early_data() and, if it gets
\* one, writes a buffer of len bytes through it.
WriterWrite ==
    /\ ~edPanicked
    /\ Len(edWrites) < MaxWrites
    /\ \E len \in 0..MaxSz :
          LET ed == [state |-> edState, left |-> edLeft]
              w == EarlyDataWriter(ed)
              r == IF w = None
                   THEN [ed |-> ed, res |-> "NoWriter", take |-> 0,
                         sent |-> edSent]
                   ELSE WriteEarlyData(ed, edSent, len)
          IN  /\ edState' = r.ed.state
              /\ edLeft' = r.ed.left
              /\ edSent' = r.sent
              /\ edPanicked' = (r.res = "Unreachable")
              /\ edWrites' = Append(edWrites,
                     [via |-> "writer", state |-> edState, sz |-> len,
                      before |-> edLeft, res |-> r.res, take |-> r.take,
                      after |-> r.ed.left, sentBefore |-> edSent,
                      sentAfter |-> r.sent])
    /\ UNCHANGED edMax
    /\ UNCHANGED notEd

\* write_early_data itself, called whatever the state is.
DirectWrite ==
    /\ ~edPanicked
    /\ Len(edWrites) < MaxWrites
    /\ \E len \in 0..MaxSz :
          LET ed == [state |-> edState, left |-> edLeft]
              r == WriteEarlyData(ed, edSent, len)
          IN  /\ edState' = r.ed.state
              /\ edLeft' = r.ed.left
              /\ edSent' = r.sent
              /\ edPanicked' = (r.res = "Unreachable")
              /\ edWrites' = Append(edWrites,
                     [via |-> "direct", state |-> edState, sz |-> len,
                      before |-> edLeft, res |-> r.res, take |-> r.take,
                      after |-> r.ed.left, sentBefore |-> edSent,
                      sentAfter |-> r.sent])
    /\ UNCHANGED edMax
    /\ UNCHANGED notEd

EarlyDataNext ==
    \/ EdEnable
    \/ EdRejected
    \/ EdAccepted
    \/ EdFinished
    \/ WriterWrite
    \/ DirectWrite

SpecEarlyData == InitEarlyData /\ [][EarlyDataNext]_vars

\* Ghosts: the smaller of two numbers; the bytes taken by the first n writes.
Min(a, b) == IF a < b THEN a ELSE b

RECURSIVE TakenUpTo(_)
TakenUpTo(n) ==
    IF n = 0 THEN 0
    ELSE TakenUpTo(n - 1)
         + (IF edWrites[n].res = "Ok" THEN edWrites[n].take ELSE 0)

\* C20: after enable(max_data) every early-data write that succeeds takes
\* min(requested size, bytes_left) bytes and lowers bytes_left by exactly
\* that; so the total taken is at most max_data, bytes_left never goes up
\* from one write to the next, and at bytes_left = 0 a write takes 0 bytes.
C20_EarlyDataLimit ==
    /\ \A i \in DOMAIN edWrites :
          edWrites[i].res = "Ok" =>
              /\ edWrites[i].take = Min(edWrites[i].sz, edWrites[i].before)
              /\ edWrites[i].after = edWrites[i].before - edWrites[i].take
              /\ edWrites[i].sentAfter
                     = edWrites[i].sentBefore + edWrites[i].take
              /\ edWrites[i].before = 0 => edWrites[i].take = 0
    /\ \A i, j \in DOMAIN edWrites :
          (i < j /\ edWrites[i].res = "Ok" /\ edWrites[j].res = "Ok")
              => edWrites[j].before <= edWrites[i].after
    /\ edMax # None =>
          /\ TakenUpTo(Len(edWrites)) <= edMax[1]
          /\ edLeft = edMax[1] - TakenUpTo(Len(edWrites))
          /\ edSent = TakenUpTo(Len(edWrites))

\* C20 witness: a write cut short at the limit, then a write of 0 bytes.
C20_Witness ==
    /\ Len(edWrites) >= 2
    /\ edWrites[1].res = "Ok" /\ edWrites[1].before > 0
    /\ edWrites[1].sz > edWrites[1].before
    /\ edWrites[2].res = "Ok" /\ edWrites[2].sz > 0 /\ edWrites[2].take = 0

\* C21: early_data() returns a writer exactly in the states Ready and
\* Accepted, and None in Disabled, Rejected and AcceptedFinished; so a write
\* through a returned writer never reaches check_write's Disabled arm.
C21_WriterOnlyWhenEnabled ==
    \A i \in DOMAIN edWrites :
        edWrites[i].via = "writer" =>
            /\ edWrites[i].res # "NoWriter"
                   <=> edWrites[i].state \in {"Ready", "Accepted"}
            /\ edWrites[i].res # "Unreachable"

\* C21 witness: no writer before enable, a writer once the server accepted.
C21_Witness ==
    /\ Len(edWrites) >= 2
    /\ edWrites[1].via = "writer" /\ edWrites[1].state = "Disabled"
    /\ edWrites[1].res = "NoWriter"
    /\ edWrites[2].via = "writer" /\ edWrites[2].state = "Accepted"
    /\ edWrites[2].res = "Ok" /\ edWrites[2].take > 0

\* C25: the calls that complete are enable: Disabled -> Ready, accepted:
\* Ready -> Accepted, finished: Accepted -> AcceptedFinished and rejected:
\* any -> Rejected; enable, accepted and finished in any other state panic
\* and change nothing; writes never change the state; so Rejected is never
\* left and the state never goes back to Disabled or Ready.
C25_EarlyDataStateMachine ==
    [][/\ EdEnable =>
             IF edState = "Disabled"
             THEN edState' = "Ready" /\ ~edPanicked'
             ELSE edState' = edState /\ edPanicked'
       /\ EdAccepted =>
             IF edState = "Ready"
             THEN edState' = "Accepted" /\ ~edPanicked'
             ELSE edState' = edState /\ edPanicked'
       /\ EdFinished =>
             IF edState = "Accepted"
             THEN edState' = "AcceptedFinished" /\ ~edPanicked'
             ELSE edState' = edState /\ edPanicked'
       /\ EdRejected => edState' = "Rejected" /\ ~edPanicked'
       /\ (WriterWrite \/ DirectWrite) => edState' = edState
       /\ edState = "Rejected" => edState' = "Rejected"
       /\ edState # "Disabled" => edState' # "Disabled"
       /\ edState \notin {"Disabled", "Ready"} => edState' # "Ready"]_vars

\* C25 witness: the whole accepted path was walked, and a call outside its
\* state has panicked.
C25_Witness ==
    /\ edState = "AcceptedFinished"
    /\ edMax # None
    /\ edPanicked
    /\ \E i \in DOMAIN edWrites : edWrites[i].state = "Accepted"

\* C26: write_early_data in the state Rejected or AcceptedFinished returns
\* InvalidInput, leaves bytes_left as it was and sends no plaintext.
C26_WriteAfterRejectedFails ==
    \A i \in DOMAIN edWrites :
        (/\ edWrites[i].via = "direct"
         /\ edWrites[i].state \in {"Rejected", "AcceptedFinished"}) =>
            /\ edWrites[i].res = "InvalidInput"
            /\ edWrites[i].after = edWrites[i].before
            /\ edWrites[i].sentAfter = edWrites[i].sentBefore

\* C26 witness: bytes were left and asked for in both of these states.
C26_Witness ==
    /\ Len(edWrites) >= 2
    /\ \E i, j \in DOMAIN edWrites :
          /\ edWrites[i].via = "direct" /\ edWrites[i].state = "Rejected"
          /\ edWrites[j].via = "direct"
          /\ edWrites[j].state = "AcceptedFinished"
          /\ edWrites[i].before > 0 /\ edWrites[i].sz > 0
          /\ edWrites[j].before > 0 /\ edWrites[j].sz > 0

(***************************************************************************)
(* ConnectionStream again: wakeups, order, end of stream.                  *)
(***************************************************************************)
\* Ghosts: the source a poll_next call polled last; where a connection's
\* item is in yielded; how many accept errors were yielded.
LastPolled(pl) == pl.polled[Len(pl.polled)]

ItemPos(c) == CHOOSE j \in ItemsFor(c) : TRUE

AcceptErrItems == {j \in 1..Len(yielded) : yielded[j] = <<"AcceptErr">>}

\* C24: a poll_next call returns Pending only after polling, last in that
\* call, the source it now waits on, which was Pending: the upgrade future
\* when the slot is full, otherwise the listener's accept; and a call that
\* accepts a connection polls its upgrade future before it returns.
C24_NoLostWakeup ==
    [][PollNext =>
          /\ lastPoll'.polled # << >>
          /\ lastPoll'.ret = "Pending" =>
                IF next' # None
                THEN /\ LastPolled(lastPoll') = "upgrade"
                     /\ hs[next'[1]] = "waiting"
                ELSE /\ LastPolled(lastPoll') = "accept"
                     /\ backlog = << >> /\ ~acceptErr
          /\ accepted' # accepted =>
                /\ lastPoll'.polled = <<"accept", "upgrade">>
                /\ next' # None => next' = Some(accepted'[Len(accepted')])]_vars

\* C24 witness: a call accepted a connection, polled its upgrade and
\* returned Pending on it.
C24_Witness ==
    /\ lastPoll.had = None
    /\ lastPoll.polled = <<"accept", "upgrade">>
    /\ lastPoll.ret = "Pending"
    /\ next # None
    /\ backlog # << >>

\* C27: connections' results are yielded in accept order: when the item of
\* a connection is out, so is the item of every connection accepted before
\* it, and earlier.
C27_YieldInAcceptOrder ==
    \A i, j \in 1..Len(accepted) :
        (i < j /\ ItemsFor(accepted[j]) # {}) =>
            /\ ItemsFor(accepted[i]) # {}
            /\ ItemPos(accepted[i]) < ItemPos(accepted[j])

\* C27 witness: two connections accepted, the items of both yielded.
C27_Witness ==
    /\ Len(accepted) = 2
    /\ ItemsFor(accepted[1]) # {} /\ ItemsFor(accepted[2]) # {}
    /\ yielded[1] = <<"Ok", accepted[1]>>
    /\ yielded[Len(yielded)] = <<"Err", accepted[2]>>

\* C28: poll_next never returns Ready(None); an accept error is yielded as
\* an Err item, once, with the slot left empty, and the call after it polls
\* the listener's accept again.
C28_NeverEnds ==
    /\ lastPoll.ret \in {"none", "Pending", "Ok", "Err"}
    /\ Cardinality(AcceptErrItems) = nAcceptErr - (IF acceptErr THEN 1 ELSE 0)
    /\ (lastPoll.ret = "Err" /\ LastPolled(lastPoll) = "accept") =>
          /\ next = None
          /\ yielded # << >>
          /\ yielded[Len(yielded)] = <<"AcceptErr">>
    /\ (prevPoll.ret = "Err" /\ LastPolled(prevPoll) = "accept") =>
          /\ lastPoll.had = None
          /\ lastPoll.polled[1] = "accept"

\* C28 witness: an accept error was yielded, and a connection after it.
C28_Witness ==
    \E i, j \in 1..Len(yielded) :
        /\ i < j
        /\ yielded[i] = <<"AcceptErr">>
        /\ yielded[j][1] = "Ok"

(***************************************************************************)
(* The HTTP/2 client of tests/stream_states.rs.  The tests script the      *)
(* peer (mock_io) byte by byte and drive one stream through request,       *)
(* send_data, poll_response, body.collect() and wait; the client itself is *)
(* not in the tests.                                                       *)
(***************************************************************************)
\* Frame types and flags, as they stand in the scripted bytes.
FRAME_DATA == 0

FRAME_HEADERS == 1

FRAME_SETTINGS == 4

END_STREAM == 1

END_HEADERS == 4

ACK == 1

\* A frame on the wire: 24-bit length, type, flags, 32-bit stream id, payload.
EncodeFrame(type, flags, sid, payload) ==
    <<0, Len(payload) \div 256, Len(payload) % 256, type, flags, 0, 0, 0, sid>>
    \o payload

FramePayloadLen(bytes) == bytes[1] * 65536 + bytes[2] * 256 + bytes[3]

\* The frames in a run of bytes; an incomplete frame at the end is left out.
RECURSIVE ParseFrames(_)
ParseFrames(bytes) ==
    IF Len(bytes) < 9 THEN << >>
    ELSE LET n == FramePayloadLen(bytes)
         IN  IF Len(bytes) < 9 + n THEN << >>
             ELSE <<[type |-> bytes[4], flags |-> bytes[5], sid |-> bytes[9],
                     payload |-> SubSeq(bytes, 10, 9 + n)]>>
                  \o ParseFrames(SubSeq(bytes, 10 + n, Len(bytes)))

HasFlag(f, flag) == (f.flags \div flag) % 2 = 1

\* HPACK indexed header fields of the static table: 8 is :status 200, 9 is
\* :status 204.
DecodeStatus(block) ==
    IF block = << >> THEN None
    ELSE IF block[1] = 128 + 8 THEN Some(200)
    ELSE IF block[1] = 128 + 9 THEN Some(204)
    ELSE None

\* The header blocks and bodies of the tests.
GetBlock == <<130, 135, 65, 139, 157, 41, 172, 75, 143, 168, 233, 25, 151,
              33, 233, 132>>

PostBlock == <<131, 135, 65, 139, 157, 41, 172, 75, 143, 168, 233, 25, 151,
               33, 233, 132>>

Hello == <<104, 101, 108, 108, 111>>

World == <<119, 111, 114, 108, 100>>

SETTINGS_ACK == EncodeFrame(FRAME_SETTINGS, ACK, 0, << >>)

\* The responses of the three tests, frame by frame.
RespNoContent == <<EncodeFrame(FRAME_HEADERS, 5, 1, <<137>>)>>

RespOneData == <<EncodeFrame(FRAME_HEADERS, 4, 1, <<136>>),
                 EncodeFrame(FRAME_DATA, 1, 1, World)>>

RespTwoData == <<EncodeFrame(FRAME_HEADERS, 4, 1, <<136>>),
                 EncodeFrame(FRAME_DATA, 0, 1, Hello),
                 EncodeFrame(FRAME_DATA, 1, 1, World)>>

Responses == {RespNoContent, RespOneData, RespTwoData}

RECURSIVE Concat(_)
Concat(sq) == IF sq = << >> THEN << >> ELSE Head(sq) \o Concat(Tail(sq))

\* The ways the transport can hand the frames fs to the client: in one read
\* (as the tests do), or cut at frame boundaries.
RECURSIVE Splits(_)
Splits(fs) ==
    IF Len(fs) <= 1 THEN {fs}
    ELSE LET rest == Splits(Tail(fs))
         IN  {<<Head(fs)>> \o r : r \in rest}
             \cup {<<Head(fs) \o Head(r)>> \o Tail(r) : r \in rest}

Scripts == UNION {Splits(r) : r \in Responses}

\* A bug: END_STREAM from the peer is not recorded on a stream whose local
\* side has ended.
StreamRecvKeepsHalfClosed(st, eos) ==
    CASE st = "open" -> IF eos THEN "half_closed_remote" ELSE "open"
      [] st = "half_closed_local" -> "half_closed_local"
      [] OTHER -> "error"

\* The stream's state after a frame is received on it (RFC 7540, 5.1).
StreamRecv(st, eos) ==
    CASE st = "open" -> IF eos THEN "half_closed_remote" ELSE "open"
      [] st = "half_closed_local" ->
             IF eos THEN "closed" ELSE "half_closed_local"
      [] OTHER -> "error"

\* The stream's state after the client sends a frame on it.
StreamSend(st, eos) ==
    CASE st = "idle" -> IF eos THEN "half_closed_local" ELSE "open"
      [] st = "open" -> IF eos THEN "half_closed_local" ELSE "open"
      [] st = "half_closed_remote" ->
             IF eos THEN "closed" ELSE "half_closed_remote"
      [] OTHER -> "error"

\* The client takes in the frames of one read, oldest first.  c holds the
\* stream's state, the status received and the DATA payloads buffered.
RECURSIVE Receive(_, _)
Receive(c, frames) ==
    IF frames = << >> THEN c
    ELSE LET f == Head(frames)
             st == StreamRecv(c.stream, HasFlag(f, END_STREAM))
         IN  IF f.type = FRAME_HEADERS
             THEN Receive([c EXCEPT !.stream = st,
                                    !.status = DecodeStatus(f.payload)],
                          Tail(frames))
             ELSE IF f.type = FRAME_DATA
             THEN Receive([c EXCEPT !.stream = st,
                                    !.buf = Append(@, f.payload)],
                          Tail(frames))
             ELSE Receive(c, Tail(frames))

\* A bug: the body reader is given one DATA frame at a time.
BodyTakeOne(buf) == [chunk |-> <<Head(buf)>>, rest |-> Tail(buf)]

\* The body reader takes what is buffered as one chunk.
BodyTake(buf) == [chunk |-> buf, rest |-> << >>]

\* After Client::handshake: the peer's SETTINGS are in, their ack is due.
InitH2 ==
    /\ timing = [received_on_wire |-> 1, other_times |-> TypeMapDefault]
    /\ tmHist = << >>
    /\ tmGot = [T |-> None, r |-> None, n |-> 0]
    /\ chainLen = 1
    /\ termKind = "NoOp"
    /\ stack = << >>
    /\ msgs = << >>
    /\ sides = << >>
    /\ inbox = << >>
    /\ log = << >>
    /\ held = [l \in 1..MaxChain |-> 0]
    /\ events = << >>
    /\ backlog = << >>
    /\ acceptErr = FALSE
    /\ nAcceptErr = 0
    /\ next = None
    /\ hs = [c \in Conns |-> "none"]
    /\ yielded = << >>
    /\ accepted = << >>
    /\ lastPoll = NoPoll
    /\ prevPoll = NoPoll
    /\ wsIn = [c \in SConns |-> << >>]
    /\ wsEnded = [c \in SConns |-> FALSE]
    /\ wsOut = [c \in SConns |-> << >>]
    /\ wsBroken = [c \in SConns |-> FALSE]
    /\ scState = [c \in SConns |-> "open"]
    /\ scItems = [c \in SConns |-> << >>]
    /\ scSends = [c \in SConns |-> << >>]
    /\ undecodable = [l \in 1..MaxChain |-> {}]
    /\ degraded = {}
    /\ mtu = None
    /\ mtuBuild = "release"
    /\ mtuCalls = << >>
    /\ mtuPanicked = FALSE
    /\ edState = "Disabled"
    /\ edLeft = 0
    /\ edMax = None
    /\ edWrites = << >>
    /\ edSent = 0
    /\ edPanicked = FALSE
    /\ h2Pc = "start"
    /\ h2ReqEos \in BOOLEAN
    /\ h2Script \in Scripts
    /\ h2Wire = << >>
    /\ h2AckDue = TRUE
    /\ h2Stream = "idle"
    /\ h2Status = None
    /\ h2Resp = None
    /\ h2Buf = << >>
    /\ h2Chunks = << >>
    /\ h2Reads = << >>
    /\ h2Conn = "open"

\* h2.request(request, end_of_stream): the HEADERS frame is written.
H2Request ==
    /\ h2Pc = "start"
    /\ h2Wire' = Append(h2Wire,
           EncodeFrame(FRAME_HEADERS,
                       END_HEADERS + (IF h2ReqEos THEN END_STREAM ELSE 0), 1,
                       IF h2ReqEos THEN GetBlock ELSE PostBlock))
    /\ h2Stream' = StreamSend(h2Stream, h2ReqEos)
    /\ h2Pc' = IF h2ReqEos THEN "poll_response" ELSE "sent_headers"
    /\ UNCHANGED <<h2ReqEos, h2Script, h2AckDue, h2Status, h2Resp, h2Buf,
                   h2Chunks, h2Reads, h2Conn>>
    /\ UNCHANGED notH2

\* stream.send_data("hello", true): the DATA frame is written.
H2SendData ==
    /\ h2Pc = "sent_headers"
    /\ h2Wire' = Append(h2Wire, EncodeFrame(FRAME_DATA, END_STREAM, 1, Hello))
    /\ h2Stream' = StreamSend(h2Stream, TRUE)
    /\ h2Pc' = "poll_response"
    /\ UNCHANGED <<h2ReqEos, h2Script, h2AckDue, h2Status, h2Resp, h2Buf,
                   h2Chunks, h2Reads, h2Conn>>
    /\ UNCHANGED notH2

\* The connection, polled inside h2.run or h2.wait, writes the SETTINGS ack.
H2WriteAck ==
    /\ h2Pc \in {"poll_response", "collect", "wait"}
    /\ h2AckDue
    /\ h2Wire' = Append(h2Wire, SETTINGS_ACK)
    /\ h2AckDue' = FALSE
    /\ UNCHANGED <<h2Pc, h2ReqEos, h2Script, h2Stream, h2Status, h2Resp,
                   h2Buf, h2Chunks, h2Reads, h2Conn>>
    /\ UNCHANGED notH2

\* The connection, polled, reads what the transport has and takes in the
\* frames.
H2Read ==
    /\ h2Pc \in {"poll_response", "collect", "wait"}
    /\ ~h2AckDue
    /\ h2Script # << >>
    /\ LET frames == ParseFrames(Head(h2Script))
           n == Len(h2Script)
           c == Receive([stream |-> h2Stream, status |-> h2Status,
                         buf |-> h2Buf], frames)
       IN  /\ h2Stream' = c.stream
           /\ h2Status' = c.status
           /\ h2Buf' = c.buf
           /\ h2Reads' = h2Reads
                  \o [i \in 1..Len(frames) |-> [rd |-> n, frame |-> frames[i]]]
    /\ h2Script' = Tail(h2Script)
    /\ UNCHANGED <<h2Pc, h2ReqEos, h2Wire, h2AckDue, h2Resp, h2Chunks, h2Conn>>
    /\ UNCHANGED notH2

\* stream.poll_response() is ready: the caller has the response head, and
\* goes on to collect the body, or straight to h2.wait().
H2PollResponse ==
    /\ h2Pc = "poll_response"
    /\ h2Status # None
    /\ h2Resp' = h2Status
    /\ h2Pc' \in {"collect", "wait"}
    /\ UNCHANGED <<h2ReqEos, h2Script, h2Wire, h2AckDue, h2Stream, h2Status,
                   h2Buf, h2Chunks, h2Reads, h2Conn>>
    /\ UNCHANGED notH2

\* body.collect() polls the body: a chunk when DATA is buffered.
H2BodyChunk ==
    /\ h2Pc = "collect"
    /\ h2Buf # << >>
    /\ h2Chunks' = Append(h2Chunks, BodyTake(h2Buf).chunk)
    /\ h2Buf' = BodyTake(h2Buf).rest
    /\ UNCHANGED <<h2Pc, h2ReqEos, h2Script, h2Wire, h2AckDue, h2Stream,
                   h2Status, h2Resp, h2Reads, h2Conn>>
    /\ UNCHANGED notH2

\* body.collect() polls the body: the end, when the peer has ended the
\* stream and nothing is buffered.
H2BodyEnd ==
    /\ h2Pc = "collect"
    /\ h2Buf = << >>
    /\ h2Stream \in {"half_closed_remote", "closed"}
    /\ h2Pc' = "wait"
    /\ UNCHANGED <<h2ReqEos, h2Script, h2Wire, h2AckDue, h2Stream, h2Status,
                   h2Resp, h2Buf, h2Chunks, h2Reads, h2Conn>>
    /\ UNCHANGED notH2

\* h2.wait(): the connection future completes once no stream is open and
\* nothing is left to write; a stream in an impossible state is an error.
H2Wait ==
    /\ h2Pc = "wait"
    /\ ~h2AckDue
    /\ h2Stream \in {"closed", "error"}
    /\ h2Conn' = IF h2Stream = "closed" THEN "done" ELSE "error"
    /\ h2Pc' = "done"
    /\ UNCHANGED <<h2ReqEos, h2Script, h2Wire, h2AckDue, h2Stream, h2Status,
                   h2Resp, h2Buf, h2Chunks, h2Reads>>
    /\ UNCHANGED notH2

H2Next ==
    \/ H2Request
    \/ H2SendData
    \/ H2WriteAck
    \/ H2Read
    \/ H2PollResponse
    \/ H2BodyChunk
    \/ H2BodyEnd
    \/ H2Wait

SpecH2 == InitH2 /\ [][H2Next]_vars

\* Ghosts: the frames the client wrote, as the peer parses them; whether
\* each side has ended stream 1; the DATA frames received, in order.
WrittenFrames == ParseFrames(Concat(h2Wire))

IsPrefix(a, b) == Len(a) <= Len(b) /\ a = SubSeq(b, 1, Len(a))

LocalEnded ==
    \E i \in 1..Len(WrittenFrames) :
        WrittenFrames[i].sid = 1 /\ WrittenFrames[i].flags % 2 = 1

RemoteEnded ==
    \E i \in 1..Len(h2Reads) :
        h2Reads[i].frame.sid = 1 /\ h2Reads[i].frame.flags % 2 = 1

DataReads == SelectSeq(h2Reads, LAMBDA r : r.frame.type = 0)

\* C22: once the request has ended (HEADERS with END_STREAM, or HEADERS and
\* then DATA with END_STREAM) and the response has ended, stream 1 is
\* closed; the client writes HEADERS, DATA, SETTINGS ack in this order; the
\* caller gets the status the peer sent; and the connection future
\* completes without error.
C22_StreamLifecycle ==
    /\ (LocalEnded /\ RemoteEnded) => h2Stream = "closed"
    /\ h2Stream # "error" /\ h2Conn # "error"
    /\ IsPrefix([i \in 1..Len(WrittenFrames) |-> WrittenFrames[i].type],
                IF h2ReqEos THEN <<1, 4>> ELSE <<1, 0, 4>>)
    /\ h2Resp # None =>
          /\ h2Reads # << >>
          /\ h2Resp = Some(IF h2Reads[1].frame.payload = <<137>>
                           THEN 204 ELSE 200)
    /\ h2Pc = "done" =>
          /\ h2Conn = "done"
          /\ h2Stream = "closed"
          /\ Len(WrittenFrames) = IF h2ReqEos THEN 2 ELSE 3

\* C22 witness: send_recv_data run to its end.
C22_Witness ==
    /\ h2Pc = "done"
    /\ ~h2ReqEos
    /\ h2Conn = "done"
    /\ h2Resp = Some(200)
    /\ Len(h2Wire) = 3
    /\ h2Wire[2] = <<0, 0, 5, 0, 1, 0, 0, 0, 1, 104, 101, 108, 108, 111>>

\* Ghosts: how many DATA payloads the first n chunks hold; the chunk that
\* holds the k-th payload delivered.
RECURSIVE PayloadsIn(_)
PayloadsIn(n) == IF n = 0 THEN 0 ELSE PayloadsIn(n - 1) + Len(h2Chunks[n])

ChunkOf(k) ==
    CHOOSE c \in 1..Len(h2Chunks) : PayloadsIn(c - 1) < k /\ k <= PayloadsIn(c)

\* C23: the body reader gets the payloads of the DATA frames received, in
\* the order received, each once; DATA frames that came in one read are in
\* one chunk; and the body ends only when all of them, up to the frame with
\* END_STREAM, were delivered, with nothing produced after it.
C23_BodyDelivery ==
    /\ Concat(h2Chunks) \o h2Buf
           = [k \in 1..Len(DataReads) |-> DataReads[k].frame.payload]
    /\ \A c \in 1..Len(h2Chunks) : h2Chunks[c] # << >>
    /\ \A k1, k2 \in 1..PayloadsIn(Len(h2Chunks)) :
          DataReads[k1].rd = DataReads[k2].rd => ChunkOf(k1) = ChunkOf(k2)
    /\ (h2Pc \in {"wait", "done"} /\ h2Chunks # << >>) =>
          /\ h2Buf = << >>
          /\ RemoteEnded
          /\ h2Script = << >>

\* C23 witness: send_headers_recv_data_single_frame: one chunk, hello then
\* world, then the end.
C23_Witness ==
    /\ h2Pc = "done"
    /\ h2Chunks = << <<Hello, World>> >>
    /\ h2Buf = << >>

=============================================================================
